---- MODULE Spec2Model ----
(***************************************************************************)
(* Search aggregation of the Help Scout MCP server (src/src/tools/index.ts) *)
(* as a state machine: one tool invocation of searchConversations or of     *)
(* comprehensiveConversationSearch, the status branches it dispatches      *)
(* against the Help Scout API, and the result or error it ends with.        *)
(***************************************************************************)
EXTENDS Integers, Sequences, FiniteSets, TLC

\* ------------------------------------------------------------------ bounds
\* conversation ids the API can return
MaxId == 3
\* creation timestamps (also the values of a createdBefore bound)
MaxTime == 2
\* conversations in one API page
MaxPage == 2
\* largest page.totalElements the API reports (0 stands for absent or zero:
\* the code reads it only through "|| 0" and "|| conversations.length")
MaxTotal == 1
\* largest requested limit
MaxLimit == 3

Ids == 1..MaxId
Times == 1..MaxTime

\* createdAt of the conversation with a given id, as Help Scout holds it: ids
\* are spread over the timestamps so that some conversations share a
\* timestamp and some differ, in either id order
CreatedAt(id) == 1 + ((id + 1) % MaxTime)

\* an optional value (undefined in the source) is the empty sequence
None == <<>>
Some(x) == <<x>>

\* ------------------------------------------------------------------ data
\* status enum of the input schemas
Statuses == {"active", "pending", "closed", "spam"}

\* const statuses = ['active', 'pending', 'closed'] of searchConversations
MultiStatuses == <<"active", "pending", "closed">>

\* the code field of a recognized API error
ErrorCodes == {"INVALID_INPUT", "NOT_FOUND", "UNAUTHORIZED", "RATE_LIMIT", "UPSTREAM_ERROR"}

\* what a rejected fetch carries: a recognized API error of some code, or any
\* other thrown value (TypeError, network failure)
Reasons ==
  {[api |-> TRUE, code |-> c, message |-> <<"message", c>>] : c \in ErrorCodes}
    \cup {[api |-> FALSE, code |-> "none", message |-> <<"message", "TypeError">>]}

NoReason == [api |-> FALSE, code |-> "none", message |-> <<>>]

\* sequences of ids of length at most n
RECURSIVE IdSeqs(_)
IdSeqs(n) ==
  IF n = 0 THEN {<<>>}
  ELSE LET shorter == IdSeqs(n - 1)
       IN shorter \cup {Append(s, i) : s \in {t \in shorter : Len(t) = n - 1}, i \in Ids}

\* statuses arrays given to comprehensiveConversationSearch (the schema's
\* default, a reordered subset, a single status, the empty array)
StatusLists ==
  {MultiStatuses, <<"closed", "active">>, <<"spam">>, <<>>}

RECURSIVE SumSeq(_)
SumSeq(s) == IF s = <<>> THEN 0 ELSE Head(s) + SumSeq(Tail(s))

VARIABLES
  op,          \* the tool being executed
  input,       \* its parsed arguments
  pc,          \* position of the handler
  branch,      \* one slot per requested status: its fetch and what it settled to
  idx,         \* loop index of executeMultiStatusSearch
  allResults,  \* allResults of executeMultiStatusSearch
  outcome,     \* what the tool call ended with
  callHistory  \* this.callHistory of the ToolHandler

vars == <<op, input, pc, branch, idx, allResults, outcome, callHistory>>

\* ------------------------------------------------------------------ helpers
isApiError(reason) == reason.api

\* a classification that forgets INVALID_INPUT
IsCriticalCodeUnauthorizedOnly(code) == code = "UNAUTHORIZED"

\* errorCode === 'UNAUTHORIZED' || errorCode === 'INVALID_INPUT'
IsCriticalCode(code) == code \in {"UNAUTHORIZED", "INVALID_INPUT"}

Settled(b) == b.state \in {"fulfilled", "rejected"}

\* Promise.allSettled: resolves when every promise has settled
\* a race: the join is over as soon as one branch has settled
AnySettled(bs) == \E i \in DOMAIN bs : Settled(bs[i])

AllSettled(bs) == \A i \in DOMAIN bs : Settled(bs[i])

\* conversations.filter(conv => new Date(conv.createdAt) < beforeDate)
applyCreatedBeforeFilter(conversations, createdBefore) ==
  LET filtered == SelectSeq(conversations, LAMBDA conv : conv.createdAt < createdBefore)
      removedCount == Len(conversations) - Len(filtered)
  IN [filtered |-> filtered, wasFiltered |-> removedCount > 0, removedCount |-> removedCount]

\* a pagination in which the filtered count stands in for the API total
buildFilteredPaginationCountOnly(filteredCount, apiPage, wasFiltered) ==
  IF ~wasFiltered THEN apiPage
  ELSE [totalResults |-> filteredCount,
        totalAvailable |-> filteredCount,
        note |-> [kind |-> "filtered", totalResults |-> filteredCount,
                  totalAvailable |-> filteredCount]]

\* buildFilteredPagination
buildFilteredPagination(filteredCount, apiPage, wasFiltered) ==
  IF ~wasFiltered THEN apiPage
  ELSE [totalResults |-> filteredCount,
        totalAvailable |-> apiPage.totalElements,
        note |-> [kind |-> "filtered", totalResults |-> filteredCount,
                  totalAvailable |-> apiPage.totalElements]]

\* ---------------------------------------------------------- the API (environment)
NewBranch(status) ==
  [status |-> status, state |-> "idle", conversations |-> <<>>,
   totalElements |-> 0, reason |-> NoReason]

\* a fetch of one status resolves with a page of that status
Fulfil(i) ==
  /\ i \in DOMAIN branch
  /\ branch[i].state = "pending"
  /\ \E page \in IdSeqs(MaxPage), total \in 0..MaxTotal :
       branch' = [branch EXCEPT ![i] =
         [@ EXCEPT !.state = "fulfilled",
                   !.conversations =
                      [k \in DOMAIN page |->
                         [id |-> page[k], createdAt |-> CreatedAt(page[k]), status |-> branch[i].status]],
                   !.totalElements = total]]
  /\ UNCHANGED <<op, input, pc, idx, allResults, outcome, callHistory>>

\* a fetch of one status rejects
Reject(i) ==
  /\ i \in DOMAIN branch
  /\ branch[i].state = "pending"
  /\ \E r \in Reasons :
       branch' = [branch EXCEPT ![i] = [@ EXCEPT !.state = "rejected", !.reason = r]]
  /\ UNCHANGED <<op, input, pc, idx, allResults, outcome, callHistory>>

Init ==
  /\ op = "none"
  /\ input = [status |-> None, statuses |-> <<>>, limit |-> 0, createdBefore |-> None]
  /\ pc = "idle"
  /\ branch = <<>>
  /\ idx = 0
  /\ allResults = <<>>
  /\ outcome = [kind |-> "none"]
  /\ callHistory = <<>>

\* ------------------------------------------------------- searchConversations
\* for (const conv of responseConversations)
\*   if (!seenIds.has(conv.id)) { seenIds.add(conv.id); conversations.push(conv); }
\* a merge that appends every conversation without looking at seenIds
RECURSIVE PushAll(_, _)
PushAll(acc, responseConversations) ==
  IF responseConversations = <<>> THEN acc
  ELSE PushAll([acc EXCEPT !.seenIds = @ \cup {Head(responseConversations).id},
                           !.conversations = Append(@, Head(responseConversations))],
               Tail(responseConversations))

RECURSIVE PushUnseen(_, _)
PushUnseen(acc, responseConversations) ==
  IF responseConversations = <<>> THEN acc
  ELSE LET conv == Head(responseConversations)
       IN PushUnseen(
            IF conv.id \notin acc.seenIds
              THEN [acc EXCEPT !.seenIds = @ \cup {conv.id},
                               !.conversations = Append(@, conv)]
              ELSE acc,
            Tail(responseConversations))

\* the body of "for (const [index, result] of results.entries())" for one
\* entry; acc.thrown holds the reason once the loop has been left by a throw
\* a total taken from the length of the page instead of the reported total
StatusTotalPageLength(result) == Len(result.conversations)

\* result.value.page?.totalElements || 0
StatusTotal(result) == result.totalElements

MergeStep(acc, index, result) ==
  IF acc.thrown # None THEN acc
  ELSE IF result.state = "fulfilled" THEN
    LET statusName == MultiStatuses[index]
        statusTotal == StatusTotal(result)
        counted == [acc EXCEPT
          !.totalByStatus = [s \in DOMAIN @ \cup {statusName} |->
                               IF s = statusName THEN statusTotal ELSE @[s]],
          !.totalAvailable = @ + statusTotal]
    IN PushUnseen(counted, result.conversations)
  ELSE
    LET reason == result.reason
        errorCode == IF isApiError(reason) THEN reason.code ELSE "UNKNOWN"
    IN IF ~isApiError(reason) THEN [acc EXCEPT !.thrown = Some(reason)]
       ELSE IF IsCriticalCode(errorCode) THEN [acc EXCEPT !.thrown = Some(reason)]
       ELSE [acc EXCEPT !.failedStatuses =
               Append(@, [status |-> MultiStatuses[index],
                          message |-> reason.message, code |-> errorCode])]

RECURSIVE MergeLoop(_, _, _)
MergeLoop(acc, results, index) ==
  IF index > Len(results) THEN acc
  ELSE MergeLoop(MergeStep(acc, index, results[index]), results, index + 1)

MergeResults(results) ==
  MergeLoop([conversations |-> <<>>, seenIds |-> {}, failedStatuses |-> <<>>,
             totalAvailable |-> 0, totalByStatus |-> [s \in {} |-> 0],
             thrown |-> None],
            results, 1)

\* conversations.sort((a, b) => time(b.createdAt) - time(a.createdAt)):
\* Array.prototype.sort is stable, so an element goes behind every element
\* that is not older than it
\* an unstable placement: the element goes in front of those of its own timestamp
InsertDescBeforeEqual(sorted, conv) ==
  LET k == Cardinality({i \in DOMAIN sorted : sorted[i].createdAt > conv.createdAt})
  IN SubSeq(sorted, 1, k) \o <<conv>> \o SubSeq(sorted, k + 1, Len(sorted))

InsertDesc(sorted, conv) ==
  LET k == Cardinality({i \in DOMAIN sorted : sorted[i].createdAt >= conv.createdAt})
  IN SubSeq(sorted, 1, k) \o <<conv>> \o SubSeq(sorted, k + 1, Len(sorted))

RECURSIVE SortByCreatedAtDesc(_)
SortByCreatedAtDesc(conversations) ==
  IF conversations = <<>> THEN <<>>
  ELSE InsertDesc(SortByCreatedAtDesc(SubSeq(conversations, 1, Len(conversations) - 1)),
                  conversations[Len(conversations)])

\* if (conversations.length > effectiveLimit) conversations.slice(0, effectiveLimit)
LimitTo(conversations, effectiveLimit) ==
  IF Len(conversations) > effectiveLimit
    THEN SubSeq(conversations, 1, effectiveLimit)
    ELSE conversations

\* pagination of the merged result
MergedPagination(conversations, m) ==
  LET some == DOMAIN m.totalByStatus # {}
      failed == m.failedStatuses
  IN [totalResults |-> Len(conversations),
      totalAvailable |-> IF some THEN Some(m.totalAvailable) ELSE None,
      totalByStatus |-> IF some THEN Some(m.totalByStatus) ELSE None,
      errors |-> IF Len(failed) > 0 THEN Some(failed) ELSE None,
      note |-> IF Len(failed) > 0
                 THEN [kind |-> "warning", failedCount |-> Len(failed),
                       failed |-> [k \in DOMAIN failed |-> <<failed[k].status, failed[k].code>>],
                       totalsReflectSuccessfulOnly |-> TRUE]
                 ELSE [kind |-> "merged",
                       statuses |-> Cardinality(DOMAIN m.totalByStatus),
                       returned |-> Len(conversations),
                       total |-> m.totalAvailable]]

\* every status counts as searched, failed or not
SearchedStatusesAll(failedStatuses) == MultiStatuses

\* searchedStatuses = statuses.filter(s => !failedStatuses.some(f => f.status === s))
SearchedStatuses(failedStatuses) ==
  SelectSeq(MultiStatuses,
            LAMBDA s : \A k \in DOMAIN failedStatuses : failedStatuses[k].status # s)

\* the client-side createdBefore filter and the response, shared by both modes
SCFinish(conversations, pagination, searchedStatuses) ==
  IF input.createdBefore = None
    THEN [kind |-> "result", results |-> conversations, pagination |-> pagination,
          statusesSearched |-> searchedStatuses, clientSideFiltering |-> FALSE]
    ELSE
      LET filterResult == applyCreatedBeforeFilter(conversations, input.createdBefore[1])
          kept == filterResult.filtered
          rebuilt ==
            IF ~filterResult.wasFiltered THEN pagination
            ELSE IF input.status # None
              THEN buildFilteredPagination(Len(kept), pagination, TRUE)
              ELSE [totalResults |-> Len(kept),
                    totalAvailable |-> pagination.totalAvailable,
                    totalByStatus |-> pagination.totalByStatus,
                    errors |-> pagination.errors,
                    note |-> [kind |-> "clientSideFilter", totalResults |-> Len(kept),
                              totalAvailable |-> pagination.totalAvailable,
                              merged |-> pagination.note]]
      IN [kind |-> "result", results |-> kept, pagination |-> rebuilt,
          statusesSearched |-> searchedStatuses,
          clientSideFiltering |-> filterResult.wasFiltered]

\* the tool is called: SearchConversationsInputSchema.parse(args)
SCCall ==
  /\ pc = "idle"
  /\ \E status \in {None} \cup {Some(s) : s \in Statuses},
        limit \in 1..MaxLimit,
        createdBefore \in {None} \cup {Some(t) : t \in Times} :
       input' = [status |-> status,
                 statuses |-> IF status = None THEN MultiStatuses ELSE <<status[1]>>,
                 limit |-> limit, createdBefore |-> createdBefore]
  /\ op' = "searchConversations"
  /\ pc' = "dispatch"
  /\ UNCHANGED <<branch, idx, allResults, outcome, callHistory>>

\* helpScoutClient.get is called once (explicit status) or once per status
\* (statuses.map) before the handler awaits
SCDispatch ==
  /\ pc = "dispatch"
  /\ op = "searchConversations"
  /\ branch' = [i \in DOMAIN input.statuses |->
                  [NewBranch(input.statuses[i]) EXCEPT !.state = "pending"]]
  /\ pc' = "await"
  /\ UNCHANGED <<op, input, idx, allResults, outcome, callHistory>>

\* an explicit-status handler that degrades a non-critical API error into an
\* empty result with a failed-status list, as the multi-status path does
SCSingleStatusPartial ==
  /\ pc = "await"
  /\ op = "searchConversations"
  /\ input.status # None
  /\ Settled(branch[1])
  /\ outcome' =
       IF branch[1].state = "rejected"
         THEN IF isApiError(branch[1].reason) /\ ~IsCriticalCode(branch[1].reason.code)
                THEN [kind |-> "result", results |-> <<>>,
                      pagination |->
                        [totalResults |-> 0, totalAvailable |-> None, totalByStatus |-> None,
                         errors |-> Some(<<[status |-> input.status[1],
                                            message |-> branch[1].reason.message,
                                            code |-> branch[1].reason.code]>>),
                         note |-> [kind |-> "warning", failedCount |-> 1,
                                   failed |-> <<<<input.status[1], branch[1].reason.code>>>>,
                                   totalsReflectSuccessfulOnly |-> TRUE]],
                      statusesSearched |-> <<>>, clientSideFiltering |-> FALSE]
                ELSE [kind |-> "error", error |-> branch[1].reason]
         ELSE SCFinish(branch[1].conversations,
                       [totalElements |-> branch[1].totalElements],
                       <<input.status[1]>>)
  /\ pc' = "done"
  /\ UNCHANGED <<op, input, branch, idx, allResults, callHistory>>

\* explicit status: await of the single fetch, then the rest of the handler
SCSingleStatus ==
  /\ pc = "await"
  /\ op = "searchConversations"
  /\ input.status # None
  /\ Settled(branch[1])
  /\ outcome' =
       IF branch[1].state = "rejected"
         THEN [kind |-> "error", error |-> branch[1].reason]
         ELSE SCFinish(branch[1].conversations,
                       [totalElements |-> branch[1].totalElements],
                       <<input.status[1]>>)
  /\ pc' = "done"
  /\ UNCHANGED <<op, input, branch, idx, allResults, callHistory>>

\* no status: await Promise.allSettled, then merge, sort, limit, filter, respond
SCMultiStatus ==
  /\ pc = "await"
  /\ op = "searchConversations"
  /\ input.status = None
  /\ AllSettled(branch)
  /\ LET m == MergeResults(branch)
         sorted == SortByCreatedAtDesc(m.conversations)
         conversations == LimitTo(sorted, input.limit)
     IN outcome' =
          IF m.thrown # None
            THEN [kind |-> "error", error |-> m.thrown[1]]
            ELSE SCFinish(conversations, MergedPagination(conversations, m),
                          IF Len(m.failedStatuses) > 0
                            THEN SearchedStatuses(m.failedStatuses)
                            ELSE MultiStatuses)
  /\ pc' = "done"
  /\ UNCHANGED <<op, input, branch, idx, allResults, callHistory>>

\* ------------------------------------------- comprehensiveConversationSearch
\* searchSingleStatus, from the resolved fetch to its return value
SingleStatusResult(b, createdBefore) ==
  LET conversations == b.conversations
      apiTotalElements ==
        IF b.totalElements # 0 THEN b.totalElements ELSE Len(conversations)
      result ==
        IF createdBefore # None
          THEN applyCreatedBeforeFilter(conversations, createdBefore[1])
          ELSE [filtered |-> conversations, wasFiltered |-> FALSE, removedCount |-> 0]
      filteredByDate == result.wasFiltered
  IN [status |-> b.status,
      totalCount |-> IF filteredByDate THEN Len(result.filtered) ELSE apiTotalElements,
      totalCountBeforeFilter |-> IF filteredByDate THEN Some(apiTotalElements) ELSE None,
      conversations |-> result.filtered,
      filteredByCreatedBefore |-> Some(filteredByDate)]

\* the entry pushed for a status whose fetch failed with a non-critical API error
FailedStatusResult(status) ==
  [status |-> status, totalCount |-> 0, totalCountBeforeFilter |-> None,
   conversations |-> <<>>, filteredByCreatedBefore |-> None]

\* formatComprehensiveSearchResults
formatComprehensiveSearchResults(results) ==
  LET totalConversations ==
        SumSeq([k \in DOMAIN results |-> Len(results[k].conversations)])
      totalAvailable == SumSeq([k \in DOMAIN results |-> results[k].totalCount])
      hasClientSideFiltering ==
        \E k \in DOMAIN results : results[k].filteredByCreatedBefore = Some(TRUE)
      beforeFilter(r) ==
        IF r.totalCountBeforeFilter # None /\ r.totalCountBeforeFilter[1] # 0
          THEN r.totalCountBeforeFilter[1]
          ELSE r.totalCount
      totalBeforeFilter ==
        IF hasClientSideFiltering
          THEN Some(SumSeq([k \in DOMAIN results |-> beforeFilter(results[k])]))
          ELSE None
  IN [kind |-> "result",
      totalConversationsFound |-> totalConversations,
      totalAvailableAcrossStatuses |-> totalAvailable,
      totalBeforeClientSideFiltering |-> totalBeforeFilter,
      clientSideFilteringApplied |-> hasClientSideFiltering,
      resultsByStatus |-> results]

\* the tool is called: MultiStatusConversationSearchInputSchema.parse(args);
\* limitPerStatus is only forwarded as the page size of each fetch.  With an
\* empty statuses array the loop body never runs and the summary is returned.
CCSCall ==
  /\ pc = "idle"
  /\ \E statuses \in StatusLists,
        createdBefore \in {None} \cup {Some(t) : t \in Times} :
       /\ input' = [status |-> None, statuses |-> statuses, limit |-> 0,
                    createdBefore |-> createdBefore]
       /\ branch' = [i \in DOMAIN statuses |-> NewBranch(statuses[i])]
       /\ IF statuses = <<>>
            THEN /\ pc' = "done"
                 /\ outcome' = formatComprehensiveSearchResults(<<>>)
            ELSE /\ pc' = "loop"
                 /\ outcome' = outcome
  /\ op' = "comprehensiveConversationSearch"
  /\ idx' = 1
  /\ UNCHANGED <<allResults, callHistory>>

\* one iteration of "for (const status of input.statuses)" up to its await:
\* searchSingleStatus issues the fetch of this status only
CCSDispatch ==
  /\ pc = "loop"
  /\ op = "comprehensiveConversationSearch"
  /\ idx <= Len(input.statuses)
  /\ branch' = [branch EXCEPT ![idx] = [@ EXCEPT !.state = "pending"]]
  /\ pc' = "awaitBranch"
  /\ UNCHANGED <<op, input, idx, allResults, outcome, callHistory>>

\* the awaited fetch has settled: the rest of the try/catch of this iteration,
\* then the next iteration or, after the last one, the summary
CCSResume ==
  /\ pc = "awaitBranch"
  /\ op = "comprehensiveConversationSearch"
  /\ Settled(branch[idx])
  /\ LET b == branch[idx]
         error == b.reason
         thrown ==
           /\ b.state = "rejected"
           /\ (~isApiError(error) \/ IsCriticalCode(error.code))
         pushed ==
           IF b.state = "fulfilled"
             THEN Append(allResults, SingleStatusResult(b, input.createdBefore))
             ELSE Append(allResults, FailedStatusResult(b.status))
     IN IF thrown
          THEN /\ outcome' = [kind |-> "error", error |-> error]
               /\ pc' = "done"
               /\ UNCHANGED <<allResults, idx>>
          ELSE /\ allResults' = pushed
               /\ idx' = idx + 1
               /\ IF idx = Len(input.statuses)
                    THEN /\ outcome' = formatComprehensiveSearchResults(pushed)
                         /\ pc' = "done"
                    ELSE /\ outcome' = outcome
                         /\ pc' = "loop"
  /\ UNCHANGED <<op, input, branch, callHistory>>

\* ------------------------------------------------ advancedConversationSearch
\* the handler from the resolved fetch to its response: the client-side
\* createdBefore filter, then buildFilteredPagination over response.page
ACSResponse(b) ==
  LET conversations == b.conversations
      originalCount == Len(conversations)
      result ==
        IF input.createdBefore # None
          THEN applyCreatedBeforeFilter(conversations, input.createdBefore[1])
          ELSE [filtered |-> conversations, wasFiltered |-> FALSE, removedCount |-> 0]
      clientSideFiltered == result.wasFiltered
      paginationInfo ==
        buildFilteredPagination(Len(result.filtered),
                                [totalElements |-> b.totalElements], clientSideFiltered)
  IN [kind |-> "result", results |-> result.filtered, pagination |-> paginationInfo,
      clientSideFiltering |->
        IF clientSideFiltered
          THEN Some([removed |-> originalCount - Len(result.filtered), of |-> originalCount])
          ELSE None]

\* the tool is called: AdvancedConversationSearchInputSchema.parse(args);
\* queryParams.status = input.status || 'all'
ACSCall ==
  /\ pc = "idle"
  /\ \E status \in {None} \cup {Some(s) : s \in Statuses},
        createdBefore \in {None} \cup {Some(t) : t \in Times} :
       input' = [status |-> status,
                 statuses |-> <<IF status = None THEN "all" ELSE status[1]>>,
                 limit |-> 0, createdBefore |-> createdBefore]
  /\ op' = "advancedConversationSearch"
  /\ pc' = "dispatch"
  /\ UNCHANGED <<branch, idx, allResults, outcome, callHistory>>

\* the single helpScoutClient.get of the handler
ACSDispatch ==
  /\ pc = "dispatch"
  /\ op = "advancedConversationSearch"
  /\ branch' = <<[NewBranch(input.statuses[1]) EXCEPT !.state = "pending"]>>
  /\ pc' = "await"
  /\ UNCHANGED <<op, input, idx, allResults, outcome, callHistory>>

\* the awaited fetch has settled: a rejection leaves the handler, a page is
\* filtered and returned
ACSResume ==
  /\ pc = "await"
  /\ op = "advancedConversationSearch"
  /\ Settled(branch[1])
  /\ outcome' =
       IF branch[1].state = "rejected"
         THEN [kind |-> "error", error |-> branch[1].reason]
         ELSE ACSResponse(branch[1])
  /\ pc' = "done"
  /\ UNCHANGED <<op, input, branch, idx, allResults, callHistory>>

\* ----------------------------------------------- structuredConversationFilter
\* the handler from the resolved fetch to its response
SCFResponse(b) ==
  LET conversations == b.conversations
      originalCount == Len(conversations)
      result ==
        IF input.createdBefore # None
          THEN applyCreatedBeforeFilter(conversations, input.createdBefore[1])
          ELSE [filtered |-> conversations, wasFiltered |-> FALSE, removedCount |-> 0]
      clientSideFiltered == result.wasFiltered
      paginationInfo ==
        buildFilteredPagination(Len(result.filtered),
                                [totalElements |-> b.totalElements], clientSideFiltered)
  IN [kind |-> "result", results |-> result.filtered, pagination |-> paginationInfo,
      clientSideFiltering |->
        IF clientSideFiltered
          THEN Some([removed |-> originalCount - Len(result.filtered), of |-> originalCount])
          ELSE None]

\* the tool is called: StructuredConversationFilterInputSchema.parse(args);
\* queryParams.status = input.status || 'all'
SCFCall ==
  /\ pc = "idle"
  /\ \E status \in {None} \cup {Some(s) : s \in Statuses},
        createdBefore \in {None} \cup {Some(t) : t \in Times} :
       input' = [status |-> status,
                 statuses |-> <<IF status = None THEN "all" ELSE status[1]>>,
                 limit |-> 0, createdBefore |-> createdBefore]
  /\ op' = "structuredConversationFilter"
  /\ pc' = "dispatch"
  /\ UNCHANGED <<branch, idx, allResults, outcome, callHistory>>

\* the single helpScoutClient.get of the handler
SCFDispatch ==
  /\ pc = "dispatch"
  /\ op = "structuredConversationFilter"
  /\ branch' = <<[NewBranch(input.statuses[1]) EXCEPT !.state = "pending"]>>
  /\ pc' = "await"
  /\ UNCHANGED <<op, input, idx, allResults, outcome, callHistory>>

\* the awaited fetch has settled
SCFResume ==
  /\ pc = "await"
  /\ op = "structuredConversationFilter"
  /\ Settled(branch[1])
  /\ outcome' =
       IF branch[1].state = "rejected"
         THEN [kind |-> "error", error |-> branch[1].reason]
         ELSE SCFResponse(branch[1])
  /\ pc' = "done"
  /\ UNCHANGED <<op, input, branch, idx, allResults, callHistory>>

Next ==
  \/ SCCall
  \/ SCDispatch
  \/ SCSingleStatus
  \/ SCMultiStatus
  \/ CCSCall
  \/ CCSDispatch
  \/ CCSResume
  \/ ACSCall
  \/ ACSDispatch
  \/ ACSResume
  \/ SCFCall
  \/ SCFDispatch
  \/ SCFResume
  \/ \E i \in DOMAIN branch : Fulfil(i)
  \/ \E i \in DOMAIN branch : Reject(i)

Spec == Init /\ [][Next]_vars

\* ================================================================ properties
MultiSC == op = "searchConversations" /\ input.status = None
SingleSC == op = "searchConversations" /\ input.status # None
CCS == op = "comprehensiveConversationSearch"
MultiStatusOp == MultiSC \/ CCS

Returned == pc = "done" /\ outcome.kind = "result"
Failed == pc = "done" /\ outcome.kind = "error"

Rejected(i) == branch[i].state = "rejected"
Fulfilled(i) == branch[i].state = "fulfilled"

\* the spec's classification: not a recognized API error, or an
\* authorization / invalid-input API error
Fatal(reason) == ~reason.api \/ reason.code \in {"UNAUTHORIZED", "INVALID_INPUT"}

\* C1: a multi-status search produces its outcome (result or error) only
\* after every requested status branch has reached a terminal state.
C1_OutcomeAfterFullJoin ==
  (MultiStatusOp /\ outcome.kind # "none") =>
    \A i \in DOMAIN branch : Settled(branch[i])

\* C2: in a multi-status search every requested branch has been dispatched
\* before the handler awaits the result of any branch.
C2_AllDispatchedBeforeAwait ==
  (MultiStatusOp /\ pc \in {"await", "awaitBranch"}) =>
    \A i \in DOMAIN branch : branch[i].state # "idle"

\* C3: in a multi-status search a branch that ended with a fatal error (not a
\* recognized API error, or UNAUTHORIZED / INVALID_INPUT) makes the whole
\* operation end in an error carrying no conversations, and an operation
\* that ended in an error did so with the fatal error of one of its
\* branches: no other API error ever aborts it.
C3_OnlyFatalErrorsAbort ==
  (MultiStatusOp /\ pc = "done") =>
    /\ (\E i \in DOMAIN branch : Rejected(i) /\ Fatal(branch[i].reason)) =>
         /\ outcome.kind = "error"
         /\ DOMAIN outcome = {"kind", "error"}
    /\ outcome.kind = "error" =>
         /\ Fatal(outcome.error)
         /\ \E i \in DOMAIN branch : Rejected(i) /\ branch[i].reason = outcome.error

C3_Witness ==
  /\ MultiStatusOp /\ Failed
  /\ \E i, j, k \in DOMAIN branch :
       /\ Rejected(i) /\ branch[i].reason.code = "INVALID_INPUT"
       /\ Fulfilled(j) /\ Len(branch[j].conversations) > 0
       /\ Rejected(k) /\ branch[k].reason.code = "RATE_LIMIT"

RECURSIVE Flatten(_)
Flatten(ss) == IF ss = <<>> THEN <<>> ELSE Head(ss) \o Flatten(Tail(ss))

\* the conversations a result carries
ConversationsOf(o) ==
  IF "results" \in DOMAIN o THEN o.results
  ELSE Flatten([k \in DOMAIN o.resultsByStatus |-> o.resultsByStatus[k].conversations])

\* the failed-status list a result carries (empty when it has none)
ErrorsOf(o) ==
  IF "pagination" \in DOMAIN o /\ "errors" \in DOMAIN o.pagination
       /\ o.pagination.errors # None
    THEN o.pagination.errors[1]
    ELSE <<>>

\* the result's note says that totals reflect the successful statuses only
NoteStatesPartialTotals(o) ==
  /\ "pagination" \in DOMAIN o
  /\ "note" \in DOMAIN o.pagination
  /\ LET note == o.pagination.note
     IN \/ note.kind = "warning" /\ note.totalsReflectSuccessfulOnly
        \/ /\ note.kind = "clientSideFilter"
           /\ note.merged.kind = "warning"
           /\ note.merged.totalsReflectSuccessfulOnly

PartialFailureReported ==
  LET errors == ErrorsOf(outcome)
      convs == ConversationsOf(outcome)
  IN /\ errors # <<>>
     /\ \A i \in DOMAIN branch : Rejected(i) =>
          \E k \in DOMAIN errors :
            errors[k] = [status |-> branch[i].status,
                         message |-> branch[i].reason.message,
                         code |-> branch[i].reason.code]
     /\ \A k \in DOMAIN errors :
          \E i \in DOMAIN branch : Rejected(i) /\ branch[i].status = errors[k].status
     /\ \A c \in DOMAIN convs, i \in DOMAIN branch :
          Rejected(i) => convs[c].status # branch[i].status
     /\ NoteStatesPartialTotals(outcome)

\* C4: a multi-status search that returns a result although a branch failed
\* carries a non-empty failed-status list naming each failed status with its
\* message and code, holds no conversation of a failed status, and its note
\* states that totals reflect only the successful statuses.
C4_PartialFailureReported ==
  (MultiStatusOp /\ Returned /\ \E i \in DOMAIN branch : Rejected(i)) =>
    PartialFailureReported

\* ---- what the branches delivered, independent of the handler's own merge
FulfilledBranches == {i \in DOMAIN branch : Fulfilled(i)}
RejectedBranches == {i \in DOMAIN branch : Rejected(i)}

\* every conversation of every successful branch, in branch order
Fetched ==
  Flatten([i \in DOMAIN branch |->
             IF Fulfilled(i) THEN branch[i].conversations ELSE <<>>])

\* position of the first fetched conversation with this id
FirstPos(id) ==
  CHOOSE k \in DOMAIN Fetched :
    /\ Fetched[k].id = id
    /\ \A j \in 1..(k - 1) : Fetched[j].id # id

ReportedSum ==
  SumSeq([i \in DOMAIN branch |-> IF Fulfilled(i) THEN branch[i].totalElements ELSE 0])

ReportedByStatus ==
  [s \in {branch[i].status : i \in FulfilledBranches} |->
     branch[CHOOSE i \in FulfilledBranches : branch[i].status = s].totalElements]

FailedListIsExactlyTheRejected ==
  {ErrorsOf(outcome)[k].status : k \in DOMAIN ErrorsOf(outcome)}
    = {branch[i].status : i \in RejectedBranches}

\* C5 as stated: in every multi-status searchConversations result
\* totalAvailable is the sum of the reported totals of the successful
\* branches (0 from a failed one) and totalByStatus has one entry per
\* successful branch.
C5_TotalsAsStated ==
  (MultiSC /\ Returned) =>
    /\ outcome.pagination.totalAvailable = Some(ReportedSum)
    /\ outcome.pagination.totalByStatus = Some(ReportedByStatus)
    /\ FailedListIsExactlyTheRejected

\* C5 (amended): in a multi-status searchConversations result with at least
\* one successful branch, totalAvailable is the sum of the reported totals of
\* exactly the successful branches and totalByStatus has one entry per
\* successful branch holding its reported total; when every branch failed,
\* totalAvailable and totalByStatus are absent.  The failed list names
\* exactly the failed statuses.
C5_TotalsOfSuccessfulBranches ==
  (MultiSC /\ Returned) =>
    /\ IF FulfilledBranches # {}
         THEN /\ outcome.pagination.totalAvailable = Some(ReportedSum)
              /\ outcome.pagination.totalByStatus = Some(ReportedByStatus)
         ELSE /\ outcome.pagination.totalAvailable = None
              /\ outcome.pagination.totalByStatus = None
    /\ FailedListIsExactlyTheRejected

C5_Witness ==
  /\ MultiSC /\ Returned
  /\ Fulfilled(1) /\ branch[1].totalElements = 1 /\ Len(branch[1].conversations) = 2
  /\ Rejected(2) /\ branch[2].reason.code = "RATE_LIMIT"
  /\ Fulfilled(3) /\ branch[3].totalElements = 1 /\ Len(branch[3].conversations) = 0
  /\ outcome.pagination.totalAvailable = Some(2)
  /\ DOMAIN outcome.pagination.totalByStatus[1] = {"active", "closed"}
  /\ Len(ErrorsOf(outcome)) = 1 /\ ErrorsOf(outcome)[1].status = "pending"

\* C6: the list returned by a multi-status searchConversations never holds
\* two conversations with the same id.
C6_NoDuplicateIds ==
  (MultiSC /\ Returned) =>
    \A i, j \in DOMAIN outcome.results :
      i # j => outcome.results[i].id # outcome.results[j].id

C6_Witness ==
  /\ MultiSC /\ Returned
  /\ \E id \in Ids :
       /\ branch[1].conversations = <<[id |-> id, createdAt |-> CreatedAt(id), status |-> "active"],
                                      [id |-> id, createdAt |-> CreatedAt(id), status |-> "active"]>>
       /\ Fulfilled(3) /\ \E k \in DOMAIN branch[3].conversations : branch[3].conversations[k].id = id
       /\ \E k \in DOMAIN outcome.results : outcome.results[k].id = id

\* C7: the list returned by a multi-status searchConversations is sorted by
\* creation timestamp, most recent first, and conversations of equal
\* timestamp keep their merge order (status order active, pending, closed,
\* then page order).
C7_NewestFirstStable ==
  (MultiSC /\ Returned) =>
    LET r == outcome.results
    IN \A i, j \in DOMAIN r : i < j =>
         /\ r[i].createdAt >= r[j].createdAt
         /\ r[i].createdAt = r[j].createdAt => FirstPos(r[i].id) < FirstPos(r[j].id)

C7_Witness ==
  /\ MultiSC /\ Returned
  /\ Len(outcome.results) = 3
  /\ Fetched[1].id = 3
  /\ \E k \in DOMAIN Fetched : Fetched[k].id = 2 /\ k > FirstPos(1)
  /\ [k \in 1..3 |-> outcome.results[k].id] = <<2, 3, 1>>

\* C8: searchConversations never returns more conversations than the
\* requested limit, in single-status and in multi-status mode.
C8_WithinLimit ==
  (op = "searchConversations" /\ Returned) =>
    Len(outcome.results) <= input.limit

\* a fetched conversation passes the createdBefore bound of the call, if any
Passes(conv) ==
  input.createdBefore = None \/ conv.createdAt < input.createdBefore[1]

CandidateIds == {Fetched[k].id : k \in {n \in DOMAIN Fetched : Passes(Fetched[n])}}

Min(a, b) == IF a <= b THEN a ELSE b

\* C9: the list returned by a multi-status searchConversations is exactly the
\* first `limit` elements of the sorted merge of what the successful branches
\* delivered (within the createdBefore bound): it is as long as the limit
\* allows and no conversation left out is newer than one returned.
C9_FirstLimitOfSortedMerge ==
  (MultiSC /\ Returned) =>
    LET r == outcome.results
        ids == {r[k].id : k \in DOMAIN r}
    IN /\ ids \subseteq CandidateIds
       /\ Len(r) = Min(input.limit, Cardinality(CandidateIds))
       /\ \A id \in CandidateIds \ ids, k \in DOMAIN r : CreatedAt(id) <= r[k].createdAt

\* the branches with the createdBefore bound applied to each page
FilteredBranches ==
  [i \in DOMAIN branch |->
     [branch[i] EXCEPT !.conversations =
        IF input.createdBefore = None THEN @
        ELSE applyCreatedBeforeFilter(@, input.createdBefore[1]).filtered]]

\* C10: in every multi-status search the createdBefore filter is applied to
\* each branch's page before the branch's counts are reported and before
\* merge, sort and limit: the result is the merge, sort and limit of the
\* filtered pages, never the filter of an already truncated list.
C10_FilterBeforeMergeSortLimit ==
  /\ (MultiSC /\ Returned) =>
       outcome.results =
         LimitTo(SortByCreatedAtDesc(MergeResults(FilteredBranches).conversations),
                 input.limit)
  /\ (CCS /\ Returned) =>
       \A k \in DOMAIN outcome.resultsByStatus :
         LET entry == outcome.resultsByStatus[k]
         IN Fulfilled(k) =>
              /\ entry.conversations = FilteredBranches[k].conversations
              /\ entry.filteredByCreatedBefore = Some(TRUE) =>
                   entry.totalCount = Len(entry.conversations)

\* ------------------------------------------------------------ C11 and C12
ACS == op = "advancedConversationSearch"
SCF == op = "structuredConversationFilter"

\* what the API reported as the total of a fetched status, as
\* searchSingleStatus reads it (page.totalElements || conversations.length)
ApiTotalOf(b) == IF b.totalElements # 0 THEN b.totalElements ELSE Len(b.conversations)

\* the createdBefore filter removed something from what this call fetched
FilterApplied ==
  /\ Returned
  /\ IF CCS THEN outcome.clientSideFilteringApplied
     ELSE IF ACS \/ SCF THEN outcome.clientSideFiltering # None
     ELSE outcome.clientSideFiltering

C12_SingleStatusErrorsPropagate ==
  (SingleSC /\ pc = "done") =>
    /\ Rejected(1) => outcome = [kind |-> "error", error |-> branch[1].reason]
    /\ outcome.kind = "result" =>
         /\ Fulfilled(1)
         /\ ErrorsOf(outcome) = <<>>
         /\ outcome.statusesSearched = <<input.status[1]>>

\* an explicit-status search whose fetch was rate limited ended with that error
C12_Witness ==
  /\ SingleSC
  /\ Failed
  /\ outcome.error.api
  /\ outcome.error.code = "RATE_LIMIT"

\* ====================================================== C24, C29
\* a multi-status search right after its call: searchConversations without
\* a status, or comprehensiveConversationSearch with a list of statuses
InitSettling ==
  /\ \/ /\ op = "searchConversations"
        /\ input = [status |-> None, statuses |-> MultiStatuses,
                    limit |-> MaxLimit, createdBefore |-> None]
        /\ pc = "dispatch"
        /\ branch = <<>>
        /\ idx = 0
     \/ /\ op = "comprehensiveConversationSearch"
        /\ \E statuses \in {<<"closed", "active">>, <<"spam">>} :
             /\ input = [status |-> None, statuses |-> statuses, limit |-> 0,
                         createdBefore |-> None]
             /\ branch = [i \in DOMAIN statuses |-> NewBranch(statuses[i])]
        /\ pc = "loop"
        /\ idx = 1
  /\ allResults = <<>>
  /\ outcome = [kind |-> "none"]
  /\ callHistory = <<>>

\* the steps of the handler of a multi-status search
Resume ==
  \/ SCDispatch
  \/ SCMultiStatus
  \/ CCSDispatch
  \/ CCSResume

\* an issued fetch settles
Settle ==
  \/ \E i \in DOMAIN branch : Fulfil(i)
  \/ \E i \in DOMAIN branch : Reject(i)

NextSettling ==
  \/ Resume
  \/ Settle

\* the handler can take its next step: the guards of the steps of Resume
ResumeReady ==
  \/ pc = "dispatch"
  \/ pc = "await" /\ AllSettled(branch)
  \/ pc = "loop" /\ idx <= Len(input.statuses)
  \/ pc = "awaitBranch" /\ Settled(branch[idx])

\* a step of the handler: the steps of Resume are the steps that change pc
HandlerStep == ResumeReady /\ pc' \in {"await", "loop", "awaitBranch", "done"}

\* the handler resumes when it can and every issued fetch settles: the
\* event loop runs a continuation once the promise it awaits has settled,
\* and the API answers or fails every request
SpecSettling ==
  InitSettling /\ [][NextSettling]_vars /\ WF_pc(HandlerStep) /\ WF_vars(Settle)

\* a multi-status search was called and has not returned
SearchRunning == MultiStatusOp /\ pc \in {"dispatch", "await", "loop", "awaitBranch"}

SearchOver == MultiStatusOp /\ pc = "done"

NoBranchPending == \A i \in DOMAIN branch : branch[i].state # "pending"

\* C24: a multi-status search has returned (a result or an error) only
\* when none of its dispatched branches is pending, and when every fetch
\* that is issued settles the search that was called returns.
C24_ReturnsIffBranchesSettle ==
  /\ [](SearchOver => NoBranchPending)
  /\ SearchRunning ~> SearchOver

\* a search that returned after it had waited for three branches, one of
\* them failed
C24_Witness ==
  /\ SearchOver
  /\ Len(branch) = 3
  /\ \A i \in DOMAIN branch : Settled(branch[i])
  /\ \E i \in DOMAIN branch : Rejected(i)
  /\ \E i \in DOMAIN branch : Fulfilled(i)

\* the statuses of the entries of pagination.errors
ErrorStatuses ==
  IF outcome.pagination.errors = None THEN {}
  ELSE {outcome.pagination.errors[1][k].status : k \in DOMAIN outcome.pagination.errors[1]}

StatusesSearched == {outcome.statusesSearched[k] : k \in DOMAIN outcome.statusesSearched}

\* C29: in the response of a multi-status searchConversations the statuses
\* of searchInfo.statusesSearched and those of pagination.errors are
\* disjoint and together are active, pending and closed, and the keys
\* of pagination.totalByStatus, when it is present, are the statuses of
\* statusesSearched.
C29_SearchedAndFailedPartitionStatuses ==
  (MultiSC /\ Returned) =>
    /\ StatusesSearched \cap ErrorStatuses = {}
    /\ StatusesSearched \cup ErrorStatuses = {"active", "pending", "closed"}
    /\ outcome.pagination.totalByStatus # None =>
         DOMAIN outcome.pagination.totalByStatus[1] = StatusesSearched

\* a response with a failed status and totals of the other two
C29_Witness ==
  /\ MultiSC
  /\ Returned
  /\ Cardinality(ErrorStatuses) = 1
  /\ Cardinality(StatusesSearched) = 2
  /\ outcome.pagination.totalByStatus # None

\* =================================================================== strings
\* A string of the program is a sequence of one-character strings, so that
\* replace, test and match can be computed character by character.
DigitChars == <<"0", "1", "2", "3", "4", "5", "6", "7", "8", "9">>

IsDigit(c) == \E n \in DOMAIN DigitChars : DigitChars[n] = c

\* the number a decimal digit stands for
DigitValue(c) == (CHOOSE n \in DOMAIN DigitChars : DigitChars[n] = c) - 1

\* the string has pat at position i (1-based)
StartsWithAt(s, i, pat) ==
  /\ i + Len(pat) - 1 <= Len(s)
  /\ SubSeq(s, i, i + Len(pat) - 1) = pat

EndsWith(s, pat) ==
  /\ Len(pat) <= Len(s)
  /\ SubSeq(s, Len(s) - Len(pat) + 1, Len(s)) = pat

\* String.prototype.replace with a global literal pattern: every
\* occurrence, left to right, without rescanning what was inserted
\* the scan takes the positions lo..hi as the starts of occurrences, half
\* by half, and gives what replaces them and the position it stopped at
RECURSIVE ReplaceAllScan(_, _, _, _, _)
ReplaceAllScan(s, lo, hi, pat, rep) ==
  IF lo > hi THEN [out |-> <<>>, next |-> lo]
  ELSE IF lo = hi
    THEN IF StartsWithAt(s, lo, pat)
           THEN [out |-> rep, next |-> lo + Len(pat)]
           ELSE [out |-> <<s[lo]>>, next |-> lo + 1]
  ELSE LET left == ReplaceAllScan(s, lo, (lo + hi) \div 2, pat, rep)
           right == ReplaceAllScan(s, left.next, hi, pat, rep)
       IN [out |-> left.out \o right.out, next |-> right.next]

ReplaceAllFrom(s, i, pat, rep) == ReplaceAllScan(s, i, Len(s), pat, rep).out

ReplaceAll(s, pat, rep) == ReplaceAllFrom(s, 1, pat, rep)

\* String.prototype.replace with a string pattern: the first occurrence only
ReplaceFirst(s, pat, rep) ==
  IF \E i \in 1..Len(s) : StartsWithAt(s, i, pat)
    THEN LET i == CHOOSE k \in 1..Len(s) :
                    /\ StartsWithAt(s, k, pat)
                    /\ \A j \in 1..(k - 1) : ~StartsWithAt(s, j, pat)
         IN SubSeq(s, 1, i - 1) \o rep \o SubSeq(s, i + Len(pat), Len(s))
    ELSE s

\* Array.prototype.join
RECURSIVE JoinWith(_, _)
JoinWith(parts, sep) ==
  IF parts = <<>> THEN <<>>
  ELSE IF Len(parts) = 1 THEN parts[1]
  ELSE parts[1] \o sep \o JoinWith(Tail(parts), sep)

\* a string or optional string counts as present in "if (x)" when it is
\* neither undefined nor empty
Truthy(opt) == opt # None /\ opt[1] # <<>>

\* ========================================================= query building
\* an escaping that handles the quotes before the backslashes
escapeQueryTermQuotesFirst(term) ==
  ReplaceAll(ReplaceAll(term, <<"\"">>, <<"\\", "\"">>), <<"\\">>, <<"\\", "\\">>)

\* term.replace(/\\/g, '\\\\').replace(/"/g, '\\"')
escapeQueryTerm(term) ==
  ReplaceAll(ReplaceAll(term, <<"\\">>, <<"\\", "\\">>), <<"\"">>, <<"\\", "\"">>)

\* /^\d{4}-\d{2}-\d{2}(T[\d:.]+Z?)?$/.test(d)
isoDatePattern(d) ==
  /\ Len(d) >= 10
  /\ \A i \in {1, 2, 3, 4, 6, 7, 9, 10} : IsDigit(d[i])
  /\ d[5] = "-"
  /\ d[8] = "-"
  /\ \/ Len(d) = 10
     \/ /\ d[11] = "T"
        /\ \E last \in {Len(d) - 1, Len(d)} :
             /\ last >= 12
             /\ last = Len(d) - 1 => d[Len(d)] = "Z"
             /\ \A i \in 12..last : IsDigit(d[i]) \/ d[i] \in {":", "."}

\* d.replace(/\.\d{3}Z$/, 'Z')
normalize(d) ==
  LET n == Len(d)
  IN IF /\ n >= 5
        /\ d[n - 4] = "."
        /\ \A i \in (n - 3)..(n - 1) : IsDigit(d[i])
        /\ d[n] = "Z"
       THEN SubSeq(d, 1, n - 5) \o <<"Z">>
       ELSE d

\* the Error thrown for a date bound that is refused
DateError(which, value) ==
  [api |-> FALSE, code |-> "none", message |-> <<"Invalid date format", which, value>>]

\* appendCreatedAtFilter: the query to send, or the Error it throws
appendCreatedAtFilter(existingQuery, createdAfter, createdBefore) ==
  IF ~Truthy(createdAfter) /\ ~Truthy(createdBefore)
    THEN [kind |-> "value", value |-> existingQuery]
  ELSE IF Truthy(createdAfter) /\ ~isoDatePattern(createdAfter[1])
    THEN [kind |-> "throw", error |-> DateError("createdAfter", createdAfter[1])]
  ELSE IF Truthy(createdBefore) /\ ~isoDatePattern(createdBefore[1])
    THEN [kind |-> "throw", error |-> DateError("createdBefore", createdBefore[1])]
  ELSE
    LET start == IF Truthy(createdAfter) THEN normalize(createdAfter[1]) ELSE <<"*">>
        end == IF Truthy(createdBefore) THEN normalize(createdBefore[1]) ELSE <<"*">>
        clause == <<"(", "c", "r", "e", "a", "t", "e", "d", "A", "t", ":", "[">> \o start \o <<" ", "T", "O", " ">> \o end \o <<"]", ")">>
    IN [kind |-> "value",
        value |-> Some(IF ~Truthy(existingQuery) THEN clause
                       ELSE <<"(">> \o existingQuery[1] \o <<")", " ", "A", "N", "D", " ">> \o clause)]

\* `${field}:"${this.escapeQueryTerm(term)}"`
QuotedClause(field, term) == field \o <<":", "\"">> \o escapeQueryTerm(term) \o <<"\"">>

\* `(${clauses.join(' OR ')})` over the terms of one field
OrGroup(field, terms) ==
  <<"(">> \o JoinWith([k \in DOMAIN terms |-> QuotedClause(field, terms[k])], <<" ", "O", "R", " ">>)
          \o <<")">>

\* input.emailDomain.replace('@', '')
EmailDomainValue(emailDomain) == ReplaceFirst(emailDomain, <<"@">>, <<>>)

\* queryString of advancedConversationSearch (an absent array is an empty one)
ACSQueryString(in) ==
  LET queryParts ==
        (IF Len(in.contentTerms) > 0 THEN <<OrGroup(<<"b", "o", "d", "y">>, in.contentTerms)>> ELSE <<>>)
        \o (IF Len(in.subjectTerms) > 0 THEN <<OrGroup(<<"s", "u", "b", "j", "e", "c", "t">>, in.subjectTerms)>> ELSE <<>>)
        \o (IF Truthy(in.customerEmail)
              THEN <<QuotedClause(<<"e", "m", "a", "i", "l">>, in.customerEmail[1])>> ELSE <<>>)
        \o (IF Truthy(in.emailDomain)
              THEN <<QuotedClause(<<"e", "m", "a", "i", "l">>, EmailDomainValue(in.emailDomain[1]))>> ELSE <<>>)
        \o (IF Len(in.tags) > 0 THEN <<OrGroup(<<"t", "a", "g">>, in.tags)>> ELSE <<>>)
  IN IF Len(queryParts) > 0 THEN Some(JoinWith(queryParts, <<" ", "A", "N", "D", " ">>)) ELSE None

\* buildSearchQuery(terms, searchIn)
buildSearchQuery(terms, searchIn) ==
  LET termQueries(term) ==
        (IF "body" \in searchIn \/ "both" \in searchIn
           THEN <<QuotedClause(<<"b", "o", "d", "y">>, term)>> ELSE <<>>)
        \o (IF "subject" \in searchIn \/ "both" \in searchIn
              THEN <<QuotedClause(<<"s", "u", "b", "j", "e", "c", "t">>, term)>> ELSE <<>>)
      group(term) == <<"(">> \o JoinWith(termQueries(term), <<" ", "O", "R", " ">>) \o <<")">>
      searched == SelectSeq(terms, LAMBDA term : Len(termQueries(term)) > 0)
      queries == [k \in DOMAIN searched |-> group(searched[k])]
  IN JoinWith(queries, <<" ", "O", "R", " ">>)

\* new Date(createdBefore) is a valid date: the ECMAScript date-time string
\* format in the forms YYYY-MM, YYYY-MM-DD and YYYY-MM-DDTHH:mm:ss with an
\* optional .sss and an optional Z, every field within its range
DateIsValid(d) ==
  LET n == Len(d)
      num(i) == 10 * DigitValue(d[i]) + DigitValue(d[i + 1])
      digits(is) == \A i \in is : IsDigit(d[i])
  IN /\ n >= 7
     /\ digits({1, 2, 3, 4, 6, 7})
     /\ d[5] = "-"
     /\ num(6) \in 1..12
     /\ \/ n = 7
        \/ /\ n >= 10
           /\ d[8] = "-"
           /\ digits({9, 10})
           /\ num(9) \in 1..31
           /\ \/ n = 10
              \/ /\ n >= 19
                 /\ d[11] = "T"
                 /\ digits({12, 13, 15, 16, 18, 19})
                 /\ d[14] = ":"
                 /\ d[17] = ":"
                 /\ num(12) \in 0..23
                 /\ num(15) \in 0..59
                 /\ num(18) \in 0..59
                 /\ \/ n = 19
                    \/ n = 20 /\ d[20] = "Z"
                    \/ /\ n \in {23, 24}
                       /\ d[20] = "."
                       /\ digits({21, 22, 23})
                       /\ n = 24 => d[24] = "Z"

\* the date check at the head of applyCreatedBeforeFilter: the Error it
\* throws, or None when beforeDate is a valid date
beforeDateError(createdBefore) ==
  IF DateIsValid(createdBefore) THEN None
  ELSE Some(DateError("createdBefore", createdBefore))

\* calculateTimeRange(timeframeDays): now minus the time frame, as an ISO
\* string without milliseconds
calculateTimeRange == <<"2", "0", "2", "4", "-", "0", "1", "-", "0", "1", "T", "0", "0", ":", "0", "0", ":", "0", "0", "Z">>

\* ------------------------------------------------------------ inputs
\* longest search term
MaxTermLen == 3

TermChars == {"a", "@", "\\", "\""}

RECURSIVE StringsOver(_, _)
StringsOver(chars, n) ==
  IF n = 0 THEN {<<>>}
  ELSE LET shorter == StringsOver(chars, n - 1)
       IN shorter \cup {Append(t, c) : t \in {u \in shorter : Len(u) = n - 1}, c \in chars}

Terms == StringsOver(TermChars, MaxTermLen)

\* created-date bounds a caller may supply: the documented form, a date
\* only, fractions of one to four digits with and without Z, a year and
\* month only, a month and day out of range, a word, the empty string
CreatedAfterInputs ==
  { <<"2", "0", "2", "4", "-", "0", "1", "-", "1", "5", "T", "0", "0", ":", "0", "0", ":", "0", "0", "Z">>, <<"2", "0", "2", "4", "-", "0", "1", "-", "1", "5">>, <<"2", "0", "2", "4", "-", "0", "1", "-", "1", "5", "T", "0", "0", ":", "0", "0", ":", "0", "0", ".", "1", "2", "3", "Z">>,
    <<"2", "0", "2", "4", "-", "0", "1", "-", "1", "5", "T", "0", "0", ":", "0", "0", ":", "0", "0", ".", "1", "2", "3">>, <<"2", "0", "2", "4", "-", "0", "1", "-", "1", "5", "T", "0", "0", ":", "0", "0", ":", "0", "0", ".", "1", "Z">>,
    <<"2", "0", "2", "4", "-", "0", "1", "-", "1", "5", "T", "0", "0", ":", "0", "0", ":", "0", "0", ".", "1", "2", "3", "4", "Z">>, <<"2", "0", "2", "4", "-", "0", "1">>, <<"2", "0", "2", "4", "-", "1", "3", "-", "4", "5">>, <<"s", "o", "o", "n">>, <<>> }

CreatedBeforeInputs ==
  { <<"2", "0", "2", "4", "-", "0", "1", "-", "1", "5", "T", "0", "0", ":", "0", "0", ":", "0", "0", "Z">>, <<"2", "0", "2", "4", "-", "0", "1", "-", "1", "5">>, <<"2", "0", "2", "4", "-", "0", "1", "-", "1", "5", "T", "0", "0", ":", "0", "0", ":", "0", "0", ".", "1", "2", "3", "Z">>,
    <<"2", "0", "2", "4", "-", "0", "1">>, <<"2", "0", "2", "4", "-", "1", "3", "-", "4", "5">>, <<"s", "o", "o", "n">>, <<>> }

Optional(S) == {None} \cup {Some(x) : x \in S}

NoQueryInput ==
  [contentTerms |-> <<>>, subjectTerms |-> <<>>, customerEmail |-> None,
   emailDomain |-> None, tags |-> <<>>, searchTerms |-> <<>>, searchIn |-> {},
   query |-> None, createdAfter |-> None, createdBefore |-> None]

\* arguments of advancedConversationSearch: one search criterion set to a
\* term (an array to the term alone or followed by a second term), or
\* only the date bounds
ACSInputs ==
  {[NoQueryInput EXCEPT !.contentTerms = ts] : ts \in {<<t>> : t \in Terms} \cup {<<t, <<"a", "\"">>>> : t \in Terms}}
    \cup {[NoQueryInput EXCEPT !.subjectTerms = <<t>>] : t \in Terms}
    \cup {[NoQueryInput EXCEPT !.customerEmail = Some(t)] : t \in Terms}
    \cup {[NoQueryInput EXCEPT !.emailDomain = Some(t)] : t \in Terms}
    \cup {[NoQueryInput EXCEPT !.tags = <<t>>, !.contentTerms = <<<<"a">>>>] : t \in Terms}
    \cup {[NoQueryInput EXCEPT !.contentTerms = <<<<"a">>>>, !.createdAfter = ca, !.createdBefore = cb] :
            ca \in Optional(CreatedAfterInputs), cb \in Optional(CreatedBeforeInputs)}

\* searchIn arrays, read through includes() only
SearchInInputs ==
  { {"both"}, {"body"}, {"subject"}, {"body", "subject"} }

\* arguments of comprehensiveConversationSearch (searchTerms has at least one term)
CCSInputs ==
  {[NoQueryInput EXCEPT !.searchTerms = ts, !.searchIn = si] :
     ts \in {<<t>> : t \in StringsOver(TermChars, MaxTermLen - 1)} \cup {<<<<"a", "\\">>, <<"\"">>>>},
     si \in SearchInInputs}
    \cup {[NoQueryInput EXCEPT !.searchTerms = <<<<"a">>>>, !.searchIn = {"both"},
                               !.createdAfter = ca, !.createdBefore = cb] :
            ca \in Optional(CreatedAfterInputs), cb \in Optional(CreatedBeforeInputs)}

\* arguments of searchConversations and of structuredConversationFilter:
\* an optional raw query and the date bounds
DatedInputs ==
  {[NoQueryInput EXCEPT !.query = q, !.createdAfter = ca, !.createdBefore = cb] :
     q \in {None, Some(<<"s", "t", "a", "t", "u", "s", ":", "o", "p", "e", "n">>)},
     ca \in Optional(CreatedAfterInputs), cb \in Optional(CreatedBeforeInputs)}

\* -------------------------------------- the query and date path of a search
\* the fetch a handler issues with the query it built
QueryBranch(status, query) ==
  [status |-> status, state |-> "pending", conversations |-> <<>>,
   totalElements |-> 0, reason |-> NoReason, query |-> query]

\* a handler up to its fetch: the query it passes to appendCreatedAtFilter
\* with createdAfter alone, then the fetch, or the Error that was thrown
BuildAndFetch(status, existingQuery, createdAfter) ==
  LET queryWithDate == appendCreatedAtFilter(existingQuery, createdAfter, None)
  IN IF queryWithDate.kind = "throw"
       THEN /\ outcome' = [kind |-> "error", error |-> queryWithDate.error]
            /\ pc' = "done"
            /\ branch' = branch
       ELSE /\ branch' = <<QueryBranch(status, queryWithDate.value)>>
            /\ pc' = "await"
            /\ outcome' = outcome

\* searchConversations up to its fetch
SCQuery ==
  /\ pc = "query"
  /\ op = "searchConversations"
  /\ BuildAndFetch("active", IF Truthy(input.query) THEN input.query ELSE None,
                   input.createdAfter)
  /\ UNCHANGED <<op, input, idx, allResults, callHistory>>

\* advancedConversationSearch up to its fetch
ACSQuery ==
  /\ pc = "query"
  /\ op = "advancedConversationSearch"
  /\ BuildAndFetch("all", ACSQueryString(input), input.createdAfter)
  /\ UNCHANGED <<op, input, idx, allResults, callHistory>>

\* structuredConversationFilter up to its fetch (customerIds left out)
SCFQuery ==
  /\ pc = "query"
  /\ op = "structuredConversationFilter"
  /\ BuildAndFetch("all", None, input.createdAfter)
  /\ UNCHANGED <<op, input, idx, allResults, callHistory>>

\* comprehensiveConversationSearch up to the fetch of its first status:
\* buildComprehensiveSearchContext, then searchSingleStatus
CCSQuery ==
  /\ pc = "query"
  /\ op = "comprehensiveConversationSearch"
  /\ LET createdAfter ==
           IF Truthy(input.createdAfter) THEN input.createdAfter
           ELSE Some(calculateTimeRange)
         searchQuery == buildSearchQuery(input.searchTerms, input.searchIn)
     IN BuildAndFetch("active", Some(searchQuery), createdAfter)
  /\ UNCHANGED <<op, input, idx, allResults, callHistory>>

\* the handler after a resolved fetch: applyCreatedBeforeFilter is called
\* when createdBefore is present and throws on an invalid date
AfterFetch ==
  IF Truthy(input.createdBefore) /\ beforeDateError(input.createdBefore[1]) # None
    THEN [kind |-> "error", error |-> beforeDateError(input.createdBefore[1])[1]]
    ELSE [kind |-> "result", query |-> branch[1].query,
          clientSideFilter |-> Truthy(input.createdBefore)]

\* searchConversations, advancedConversationSearch and
\* structuredConversationFilter after their fetch has settled
SingleFetchResume ==
  /\ pc = "await"
  /\ op \in {"searchConversations", "advancedConversationSearch",
             "structuredConversationFilter"}
  /\ Settled(branch[1])
  /\ outcome' =
       IF branch[1].state = "rejected"
         THEN [kind |-> "error", error |-> branch[1].reason]
         ELSE AfterFetch
  /\ pc' = "done"
  /\ UNCHANGED <<op, input, branch, idx, allResults, callHistory>>

\* comprehensiveConversationSearch after the fetch of its status has
\* settled: the catch of executeMultiStatusSearch keeps a non-critical API
\* error as an empty entry and rethrows everything else
CCSQueryResume ==
  /\ pc = "await"
  /\ op = "comprehensiveConversationSearch"
  /\ Settled(branch[1])
  /\ outcome' =
       IF branch[1].state = "rejected"
         THEN IF isApiError(branch[1].reason) /\ ~IsCriticalCode(branch[1].reason.code)
                THEN [kind |-> "result", query |-> branch[1].query, clientSideFilter |-> FALSE]
                ELSE [kind |-> "error", error |-> branch[1].reason]
         ELSE AfterFetch
  /\ pc' = "done"
  /\ UNCHANGED <<op, input, branch, idx, allResults, callHistory>>

InitQuery ==
  /\ \/ op = "advancedConversationSearch" /\ input \in ACSInputs
     \/ op = "comprehensiveConversationSearch" /\ input \in CCSInputs
     \/ /\ op \in {"searchConversations", "structuredConversationFilter"}
        /\ input \in DatedInputs
  /\ pc = "query"
  /\ branch = <<>>
  /\ idx = 0
  /\ allResults = <<>>
  /\ outcome = [kind |-> "none"]
  /\ callHistory = <<>>

NextQuery ==
  \/ SCQuery
  \/ ACSQuery
  \/ SCFQuery
  \/ CCSQuery
  \/ SingleFetchResume
  \/ CCSQueryResume
  \/ \E i \in DOMAIN branch : Fulfil(i)
  \/ \E i \in DOMAIN branch : Reject(i)

SpecQuery == InitQuery /\ [][NextQuery]_vars

\* ---------------------------------------------------- C13, C14, C15, C16
QueryACS == op = "advancedConversationSearch" /\ "contentTerms" \in DOMAIN input
QueryCCS == op = "comprehensiveConversationSearch" /\ "searchTerms" \in DOMAIN input

\* the handler has built its query and issued the fetch with it
QueryBuilt == branch # <<>> /\ "query" \in DOMAIN branch[1] /\ branch[1].query # None

\* how the query syntax reads a query: outside a phrase a double quote opens
\* one; inside, a backslash makes the next character literal and a double
\* quote closes the phrase.  cur is the phrase being read, None outside.
RECURSIVE ScanQuoted(_, _, _, _)
ScanQuoted(q, i, cur, acc) ==
  IF i > Len(q) THEN [values |-> acc, open |-> cur # None]
  ELSE IF cur = None
    THEN ScanQuoted(q, i + 1, IF q[i] = "\"" THEN Some(<<>>) ELSE None, acc)
  ELSE IF q[i] = "\\" /\ i < Len(q)
    THEN ScanQuoted(q, i + 2, Some(Append(cur[1], q[i + 1])), acc)
  ELSE IF q[i] = "\""
    THEN ScanQuoted(q, i + 1, None, Append(acc, cur[1]))
  ELSE ScanQuoted(q, i + 1, Some(Append(cur[1], q[i])), acc)

\* the phrases of a query, in order
QuotedValues(q) == ScanQuoted(q, 1, None, <<>>)

RECURSIVE ConcatAll(_)
ConcatAll(ss) == IF ss = <<>> THEN <<>> ELSE Head(ss) \o ConcatAll(Tail(ss))

\* the terms the handler handed to escapeQueryTerm, in clause order
TermsPassed ==
  IF QueryACS
    THEN input.contentTerms \o input.subjectTerms
           \o (IF Truthy(input.customerEmail) THEN <<input.customerEmail[1]>> ELSE <<>>)
           \o (IF Truthy(input.emailDomain)
                 THEN <<EmailDomainValue(input.emailDomain[1])>> ELSE <<>>)
           \o input.tags
    ELSE ConcatAll([k \in DOMAIN input.searchTerms |->
           (IF "body" \in input.searchIn \/ "both" \in input.searchIn
              THEN <<input.searchTerms[k]>> ELSE <<>>)
           \o (IF "subject" \in input.searchIn \/ "both" \in input.searchIn
                 THEN <<input.searchTerms[k]>> ELSE <<>>)])

\* C13: in every query built from search terms, each term sits escaped in
\* its clause so that the quoted phrases of the query, read with backslash
\* escapes, are exactly the terms in clause order: every backslash and
\* every double quote of a term is read back as itself, the first unescaped
\* double quote after an opening quote is the builder's closing quote, and
\* no term ends its phrase or adds a clause.
C13_TermsStayInsideTheirQuotes ==
  ((QueryACS \/ QueryCCS) /\ QueryBuilt) =>
    /\ QuotedValues(branch[1].query[1]) = [values |-> TermsPassed, open |-> FALSE]
    /\ \A k \in DOMAIN TermsPassed :
         Len(escapeQueryTerm(TermsPassed[k])) =
           Len(TermsPassed[k])
             + Cardinality({i \in DOMAIN TermsPassed[k] : TermsPassed[k][i] \in {"\\", "\""}})

\* a content term made of a backslash followed by a double quote was built
\* into a query
C13_Witness ==
  /\ QueryACS
  /\ QueryBuilt
  /\ input.contentTerms = << <<"a", "\\", "\"">> >>
  /\ pc = "done"
  /\ outcome.kind = "result"

\* the date bounds an operation was called with (an empty string counts as
\* no bound)
SuppliedBounds ==
  (IF Truthy(input.createdAfter) THEN {input.createdAfter[1]} ELSE {})
    \cup (IF Truthy(input.createdBefore) THEN {input.createdBefore[1]} ELSE {})

\* C14: in every search operation each supplied created-date bound,
\* createdAfter and createdBefore alike, is tested against the ISO-8601
\* pattern, and the operation ends with an error when a bound does not
\* match it.
C14_EveryBoundValidated ==
  (pc = "done" /\ "createdAfter" \in DOMAIN input
     /\ \E d \in SuppliedBounds : ~isoDatePattern(d)) =>
    outcome.kind = "error"

\* a date bound without its sub-second fraction: a dot and the digits after it
RECURSIVE WithoutFraction(_)
WithoutFraction(d) ==
  IF d = <<>> THEN <<>>
  ELSE IF Head(d) = "." /\ Len(d) > 1 /\ IsDigit(d[2])
    THEN LET rest == Tail(d)
             k == CHOOSE n \in 1..Len(rest) :
                    /\ \A i \in 1..n : IsDigit(rest[i])
                    /\ n < Len(rest) => ~IsDigit(rest[n + 1])
         IN WithoutFraction(SubSeq(rest, k + 1, Len(rest)))
  ELSE <<Head(d)>> \o WithoutFraction(Tail(d))

\* C15: whenever a query is built with a lower created-date bound that
\* passed validation, its range clause holds that bound without any
\* sub-second fraction, however many fractional digits the bound has and
\* whether or not it ends in Z.
C15_NoFractionInRangeClause ==
  (QueryBuilt /\ "createdAfter" \in DOMAIN input /\ Truthy(input.createdAfter)) =>
    EndsWith(branch[1].query[1],
             <<"(", "c", "r", "e", "a", "t", "e", "d", "A", "t", ":", "[">> \o WithoutFraction(input.createdAfter[1]) \o <<" ", "T", "O", " ", "*", "]", ")">>)

\* the email domain as the claim has it: one leading @ removed
StripLeadingAt(d) == IF d # <<>> /\ Head(d) = "@" THEN Tail(d) ELSE d

\* C16: in advancedConversationSearch the value of the email-domain clause
\* is the supplied emailDomain with one leading @ removed when present and
\* otherwise unchanged; an @ elsewhere in the domain is never removed.
C16_OnlyLeadingAtRemoved ==
  (QueryACS /\ QueryBuilt /\ Truthy(input.emailDomain)) =>
    LET pos == Len(input.contentTerms) + Len(input.subjectTerms)
                 + (IF Truthy(input.customerEmail) THEN 1 ELSE 0) + 1
    IN QuotedValues(branch[1].query[1]).values[pos] = StripLeadingAt(input.emailDomain[1])

\* ============================================================ html-stripper
LowerChars ==
  <<"a", "b", "c", "d", "e", "f", "g", "h", "i", "j", "k", "l", "m",
    "n", "o", "p", "q", "r", "s", "t", "u", "v", "w", "x", "y", "z">>

UpperChars ==
  <<"A", "B", "C", "D", "E", "F", "G", "H", "I", "J", "K", "L", "M",
    "N", "O", "P", "Q", "R", "S", "T", "U", "V", "W", "X", "Y", "Z">>

\* the lower-case form of a character (the i flag of a pattern)
Lower(c) ==
  IF \E n \in DOMAIN UpperChars : UpperChars[n] = c
    THEN LowerChars[CHOOSE n \in DOMAIN UpperChars : UpperChars[n] = c]
    ELSE c

LowerStr(s) == [i \in DOMAIN s |-> Lower(s[i])]

\* \w
IsWordChar(c) ==
  \/ IsDigit(c)
  \/ c = "_"
  \/ \E n \in DOMAIN LowerChars : LowerChars[n] = Lower(c)

\* \s, and what trim() removes
IsSpace(c) == c \in {" ", "\t", "\n", "\r"}

\* ["']
IsQuote(c) == c \in {"\"", "'"}

\* the string has pat (given in lower case) at position i, ignoring case
StartsWithAtCI(s, i, pat) ==
  /\ i + Len(pat) - 1 <= Len(s)
  /\ LowerStr(SubSeq(s, i, i + Len(pat) - 1)) = pat

\* first position from i on that holds c, or 0
IndexFrom(s, c, i) ==
  LET hits == {k \in i..Len(s) : s[k] = c}
  IN IF hits = {} THEN 0
     ELSE CHOOSE k \in hits : \A j \in hits : k <= j

\* \s*: the first position from i on that holds no white space
RECURSIVE SkipSpace(_, _)
SkipSpace(s, i) ==
  IF i <= Len(s) /\ IsSpace(s[i]) THEN SkipSpace(s, i + 1) ELSE i

\* \d+ from i: the position after the digits
RECURSIVE SkipDigits(_, _)
SkipDigits(s, i) ==
  IF i <= Len(s) /\ IsDigit(s[i]) THEN SkipDigits(s, i + 1) ELSE i

\* [^"']* from i: the position after the characters that are no quote
RECURSIVE SkipNonQuote(_, _)
SkipNonQuote(s, i) ==
  IF i <= Len(s) /\ ~IsQuote(s[i]) THEN SkipNonQuote(s, i + 1) ELSE i

\* String(n): the decimal digits of a natural number
RECURSIVE ToDecimal(_)
ToDecimal(n) ==
  IF n < 10 THEN <<DigitChars[n + 1]>>
  ELSE ToDecimal(n \div 10) \o <<DigitChars[(n % 10) + 1]>>

\* String.prototype.trim
RECURSIVE TrimEnd(_)
TrimEnd(s) ==
  IF s # <<>> /\ IsSpace(s[Len(s)]) THEN TrimEnd(SubSeq(s, 1, Len(s) - 1)) ELSE s

TrimStr(s) == LET k == SkipSpace(s, 1) IN TrimEnd(SubSeq(s, k, Len(s)))

\* ------------------------------------------------------ extractInlineImages
\* /<img\b[^>]*>/i at position i: the position of the closing >, or 0
ImgTagEnd(html, i) ==
  IF /\ StartsWithAtCI(html, i, <<"<", "i", "m", "g">>)
     /\ i + 4 <= Len(html)
     /\ ~IsWordChar(html[i + 4])
    THEN IndexFrom(html, ">", i + 4)
    ELSE 0

\* /\bNAME\s*=\s*/i at position i of the tag: the position after it, or 0
AttrValueStart(tag, i, name) ==
  IF /\ StartsWithAtCI(tag, i, name)
     /\ (i = 1 \/ ~IsWordChar(tag[i - 1]))
    THEN LET eq == SkipSpace(tag, i + Len(name))
         IN IF eq <= Len(tag) /\ tag[eq] = "=" THEN SkipSpace(tag, eq + 1) ELSE 0
    ELSE 0

\* the capture of ["']([^"']+)["'] (atLeast = 1) or of ["']([^"']*?)["']
\* (atLeast = 0) at position v, or None when it does not match there
QuotedCapture(tag, v, atLeast) ==
  IF v = 0 \/ v > Len(tag) \/ ~IsQuote(tag[v]) THEN None
  ELSE LET e == SkipNonQuote(tag, v + 1)
       IN IF e <= Len(tag) /\ e - (v + 1) >= atLeast
            THEN Some(SubSeq(tag, v + 1, e - 1))
            ELSE None

\* the capture of ["']?(\d+)["']? at position v, or None
DigitsCapture(tag, v) ==
  IF v = 0 \/ v > Len(tag) THEN None
  ELSE LET d == IF IsQuote(tag[v]) THEN v + 1 ELSE v
           e == SkipDigits(tag, d)
       IN IF e > d THEN Some(SubSeq(tag, d, e - 1)) ELSE None

\* tag.match(pattern)?.[1]: the capture of the leftmost match from i on
RECURSIVE AttrMatch(_, _, _, _)
AttrMatch(tag, i, name, kind) ==
  IF i > Len(tag) THEN None
  ELSE LET v == AttrValueStart(tag, i, name)
           capture ==
             IF kind = "digits" THEN DigitsCapture(tag, v)
             ELSE QuotedCapture(tag, v, IF kind = "nonEmpty" THEN 1 ELSE 0)
       IN IF capture # None THEN capture ELSE AttrMatch(tag, i + 1, name, kind)

\* /^https?:\/\//i.test(src)
IsFetchable(src) ==
  StartsWithAtCI(src, 1, <<"h", "t", "t", "p", ":", "/", "/">>) \/ StartsWithAtCI(src, 1, <<"h", "t", "t", "p", "s", ":", "/", "/">>)

\* the callback of html.replace for one tag: the image to push (None for a
\* tracking pixel) and the text that replaces the tag
ReplaceImgTag(tag, imageIndex) ==
  LET srcMatch == AttrMatch(tag, 1, <<"s", "r", "c">>, "nonEmpty")
      altMatch == AttrMatch(tag, 1, <<"a", "l", "t">>, "any")
      src == IF srcMatch # None THEN srcMatch[1] ELSE <<>>
      alt == IF altMatch # None THEN altMatch[1] ELSE <<>>
      width == AttrMatch(tag, 1, <<"w", "i", "d", "t", "h">>, "digits")
      height == AttrMatch(tag, 1, <<"h", "e", "i", "g", "h", "t">>, "digits")
  IN IF width = Some(<<"1">>) /\ height = Some(<<"1">>)
       THEN [image |-> None, label |-> <<>>]
       ELSE [image |-> Some([index |-> imageIndex + 1, src |-> src, alt |-> alt,
                             width |-> width, height |-> height,
                             isFetchable |-> IsFetchable(src)]),
             label |-> IF alt # <<>>
                         THEN <<"[", "I", "m", "a", "g", "e", " ">> \o ToDecimal(imageIndex + 1) \o <<":", " ">> \o alt \o <<"]">>
                         ELSE <<"[", "I", "m", "a", "g", "e", " ">> \o ToDecimal(imageIndex + 1) \o <<"]">>]

\* html.replace(/<img\b[^>]*>/gi, callback), from position i on
RECURSIVE ExtractFrom(_, _, _, _)
ExtractFrom(html, i, images, modified) ==
  IF i > Len(html) THEN [images |-> images, html |-> modified]
  ELSE LET e == ImgTagEnd(html, i)
       IN IF e = 0 THEN ExtractFrom(html, i + 1, images, Append(modified, html[i]))
          ELSE LET r == ReplaceImgTag(SubSeq(html, i, e), Len(images))
               IN ExtractFrom(html, e + 1,
                              IF r.image = None THEN images ELSE Append(images, r.image[1]),
                              modified \o r.label)

extractInlineImages(html) ==
  IF html = <<>> THEN [images |-> <<>>, html |-> <<>>]
  ELSE ExtractFrom(html, 1, <<>>, <<>>)

\* ------------------------------------------------------------------ stripHtml
\* match.index must exceed this for a quote container to be cut
QuoteGuard == 50

\* the tags of /<\/(p|div|li|tr|h[1-6])>/
BlockTagNames ==
  { <<"p">>, <<"d", "i", "v">>, <<"l", "i">>, <<"t", "r">>, <<"h", "1">>, <<"h", "2">>, <<"h", "3">>, <<"h", "4">>, <<"h", "5">>, <<"h", "6">> }

\* the position where a match of the pattern that starts at i ends, or 0:
\*   br          /<br\s*\/?>/i
\*   closeBlock  /<\/(p|div|li|tr|h[1-6])>/i
\*   tag         /<[^>]+>/
\*   blank       /[ \t]+/
\*   newlines    /\n{3,}/
RECURSIVE RunEnd(_, _, _)
RunEnd(s, i, chars) ==
  IF i <= Len(s) /\ s[i] \in chars THEN RunEnd(s, i + 1, chars) ELSE i - 1

MatchEnd(kind, s, i) ==
  CASE kind = "br" ->
         IF StartsWithAtCI(s, i, <<"<", "b", "r">>)
           THEN LET j == SkipSpace(s, i + 3)
                    k == IF j <= Len(s) /\ s[j] = "/" THEN j + 1 ELSE j
                IN IF k <= Len(s) /\ s[k] = ">" THEN k ELSE 0
           ELSE 0
    [] kind = "closeBlock" ->
         IF StartsWithAt(s, i, <<"<", "/">>)
              /\ \E name \in BlockTagNames :
                   StartsWithAtCI(s, i + 2, name) /\ StartsWithAt(s, i + 2 + Len(name), <<">">>)
           THEN LET name == CHOOSE nm \in BlockTagNames :
                              /\ StartsWithAtCI(s, i + 2, nm)
                              /\ StartsWithAt(s, i + 2 + Len(nm), <<">">>)
                IN i + 2 + Len(name)
           ELSE 0
    [] kind = "tag" ->
         IF s[i] = "<" /\ i + 1 <= Len(s) /\ s[i + 1] # ">"
           THEN IndexFrom(s, ">", i + 2)
           ELSE 0
    [] kind = "blank" ->
         IF s[i] \in {" ", "\t"} THEN RunEnd(s, i, {" ", "\t"}) ELSE 0
    [] kind = "newlines" ->
         IF RunEnd(s, i, {"\n"}) >= i + 2 THEN RunEnd(s, i, {"\n"}) ELSE 0

\* text.replace(pattern, rep) with the g flag: the scan takes the
\* positions lo..hi as the starts of matches, half by half, and gives what
\* replaces them and the position it stopped at
RECURSIVE RegexScan(_, _, _, _, _)
RegexScan(s, lo, hi, kind, rep) ==
  IF lo > hi THEN [out |-> <<>>, next |-> lo]
  ELSE IF lo = hi
    THEN LET e == MatchEnd(kind, s, lo)
         IN IF e = 0 THEN [out |-> <<s[lo]>>, next |-> lo + 1]
            ELSE [out |-> rep, next |-> e + 1]
  ELSE LET left == RegexScan(s, lo, (lo + hi) \div 2, kind, rep)
           right == RegexScan(s, left.next, hi, kind, rep)
       IN [out |-> left.out \o right.out, next |-> right.next]

\* text.replace(pattern, rep) with the g flag, from position i on
RegexReplaceFrom(s, i, kind, rep) == RegexScan(s, i, Len(s), kind, rep).out

RegexReplace(s, kind, rep) == RegexReplaceFrom(s, 1, kind, rep)

\* no character of s[from..to] is c
NoneBetween(s, from, to, c) == \A k \in from..to : s[k] # c

\* /<blockquote[^>]*>[\s\S]*$/i matches at position i
BlockquoteAt(s, i) ==
  StartsWithAtCI(s, i, <<"<", "b", "l", "o", "c", "k", "q", "u", "o", "t", "e">>) /\ IndexFrom(s, ">", i + 11) # 0

\* /<div\s[^>]*ATTR"[^"]*NEEDLE[^"]*"[^>]*>[\s\S]*$/i matches at position i,
\* where attr is the attribute up to its opening quote; with exact the
\* value is the needle and nothing else
DivQuoteAt(s, i, attr, needle, exact) ==
  /\ StartsWithAtCI(s, i, <<"<", "d", "i", "v">>)
  /\ i + 4 <= Len(s)
  /\ IsSpace(s[i + 4])
  /\ \E p \in (i + 5)..Len(s) :
       /\ NoneBetween(s, i + 5, p - 1, ">")
       /\ StartsWithAtCI(s, p, attr)
       /\ \E k \in (p + Len(attr))..Len(s) :
            /\ exact => k = p + Len(attr)
            /\ NoneBetween(s, p + Len(attr), k - 1, "\"")
            /\ StartsWithAtCI(s, k, needle)
            /\ \E m \in (k + Len(needle))..Len(s) :
                 /\ exact => m = k + Len(needle)
                 /\ s[m] = "\""
                 /\ NoneBetween(s, k + Len(needle), m - 1, "\"")
                 /\ IndexFrom(s, ">", m + 1) # 0

\* htmlQuotePatterns, in order: pattern n matches at position i
QuotePatternAt(n, s, i) ==
  CASE n = 1 -> BlockquoteAt(s, i)
    [] n = 2 -> DivQuoteAt(s, i, <<"c", "l", "a", "s", "s", "=", "\"">>, <<"g", "m", "a", "i", "l", "_", "q", "u", "o", "t", "e">>, FALSE)
    [] n = 3 -> DivQuoteAt(s, i, <<"i", "d", "=", "\"">>, <<"a", "p", "p", "e", "n", "d", "o", "n", "s", "e", "n", "d">>, TRUE)
    [] n = 4 -> DivQuoteAt(s, i, <<"c", "l", "a", "s", "s", "=", "\"">>, <<"y", "a", "h", "o", "o", "_", "q", "u", "o", "t", "e", "d">>, FALSE)

\* text.match(pattern).index + 1: the leftmost position from i on where
\* pattern n matches, or 0
QuoteMatchFrom(n, s, i) ==
  LET starts == {k \in i..Len(s) : QuotePatternAt(n, s, k)}
  IN IF starts = {} THEN 0
     ELSE CHOOSE k \in starts : \A j \in starts : k <= j

QuoteMatchPos(n, s) == QuoteMatchFrom(n, s, 1)

\* the loop with a guard that a match after exactly QuoteGuard characters passes
RECURSIVE CutQuoteContainerAtGuard(_, _)
CutQuoteContainerAtGuard(text, n) ==
  IF n > 4 THEN text
  ELSE LET pos == QuoteMatchPos(n, text)
       IN IF pos # 0 /\ pos - 1 >= QuoteGuard
            THEN SubSeq(text, 1, pos - 1)
            ELSE CutQuoteContainerAtGuard(text, n + 1)

\* the loop over htmlQuotePatterns: the first pattern whose match starts
\* after more than QuoteGuard characters cuts the text there
RECURSIVE CutQuoteContainer(_, _)
CutQuoteContainer(text, n) ==
  IF n > 4 THEN text
  ELSE LET pos == QuoteMatchPos(n, text)
       IN IF pos # 0 /\ pos - 1 > QuoteGuard
            THEN SubSeq(text, 1, pos - 1)
            ELSE CutQuoteContainer(text, n + 1)

\* the entity replacements, in the order of the source
DecodeEntities(text) ==
  LET amp == ReplaceAll(text, <<"&", "a", "m", "p", ";">>, <<"&">>)
      lt == ReplaceAll(amp, <<"&", "l", "t", ";">>, <<"<">>)
      gt == ReplaceAll(lt, <<"&", "g", "t", ";">>, <<">">>)
      quot == ReplaceAll(gt, <<"&", "q", "u", "o", "t", ";">>, <<"\"">>)
      apos == ReplaceAll(quot, <<"&", "#", "3", "9", ";">>, <<"'">>)
  IN ReplaceAll(apos, <<"&", "n", "b", "s", "p", ";">>, <<" ">>)

\* stripHtml(html, maxLength); an absent maxLength is None
stripHtml(html, maxLength) ==
  IF html = <<>> THEN <<>>
  ELSE
    LET cut == CutQuoteContainer(html, 1)
        breaks == RegexReplace(cut, "br", <<"\n">>)
        blocks == RegexReplace(breaks, "closeBlock", <<"\n">>)
        untagged == RegexReplace(blocks, "tag", <<>>)
        decoded == DecodeEntities(untagged)
        collapsed == RegexReplace(decoded, "blank", <<" ">>)
        spaced == RegexReplace(collapsed, "newlines", <<"\n", "\n">>)
        text == TrimStr(spaced)
    IN IF maxLength # None /\ maxLength[1] # 0
         THEN SubSeq(text, 1, IF maxLength[1] < Len(text) THEN maxLength[1] ELSE Len(text))
         ELSE text

\* --------------------------------------------------------- stripQuotedContent
\* kept.length must reach this for the text to be cut
MinKeptChars == 10

\* removedChars must reach this for the text to be cut
MinRemovedChars == 100

\* a header line is looked for in the lines before index i + HeaderWindow
HeaderWindow == 8

\* the bounds of .{10,100} in the reply patterns
MinReplyGap == 10
MaxReplyGap == 100

\* text.split('\n')
RECURSIVE SplitLines(_)
SplitLines(text) ==
  LET nl == IndexFrom(text, "\n", 1)
  IN IF nl = 0 THEN <<text>>
     ELSE <<SubSeq(text, 1, nl - 1)>> \o SplitLines(SubSeq(text, nl + 1, Len(text)))

\* every character from position i on is white space
OnlySpaceFrom(s, i) == \A k \in i..Len(s) : IsSpace(s[k])

\* the length of the run of characters of chars that starts at position i
RunLength(s, i, chars) == RunEnd(s, i, chars) - i + 1

\* . of a pattern: any character but a line terminator
IsDot(c) == c \notin {"\n", "\r"}

\* \s+.+ matches exactly s[from..to]
SpaceThenSome(s, from, to) ==
  \E q \in (from + 1)..to :
    /\ \A k \in from..(q - 1) : IsSpace(s[k])
    /\ \A k \in q..to : IsDot(s[k])

\* /^-{3,}\s*(Forwarded message|Original Message)\s*-{3,}$/i
ForwardMarker(line) ==
  LET dashes == RunLength(line, 1, {"-"})
      title == SkipSpace(line, dashes + 1)
  IN /\ dashes >= 3
     /\ \E name \in { <<"f", "o", "r", "w", "a", "r", "d", "e", "d", " ", "m", "e", "s", "s", "a", "g", "e">>, <<"o", "r", "i", "g", "i", "n", "a", "l", " ", "m", "e", "s", "s", "a", "g", "e">> } :
          /\ StartsWithAtCI(line, title, name)
          /\ LET tail == SkipSpace(line, title + Len(name))
             IN /\ RunLength(line, tail, {"-"}) >= 3
                /\ RunEnd(line, tail, {"-"}) = Len(line)

\* /^Begin forwarded message:\s*$/i
BeginForwarded(line) ==
  /\ StartsWithAtCI(line, 1, <<"b", "e", "g", "i", "n", " ", "f", "o", "r", "w", "a", "r", "d", "e", "d", " ", "m", "e", "s", "s", "a", "g", "e", ":">>)
  /\ OnlySpaceFrom(line, Len(<<"b", "e", "g", "i", "n", " ", "f", "o", "r", "w", "a", "r", "d", "e", "d", " ", "m", "e", "s", "s", "a", "g", "e", ":">>) + 1)

\* HEAD\s+.{10,100}\s+ ends right before position p: white space after the
\* head, white space before p, and 10 to 100 characters between the two
GapBefore(line, headLen, p) ==
  \E a \in 1..RunLength(line, headLen + 1, {" ", "\t", "\n", "\r"}) :
    \E b \in 1..(p - 1) :
      /\ \A k \in (p - b)..(p - 1) : IsSpace(line[k])
      /\ (p - b) - (headLen + 1 + a) \in MinReplyGap..MaxReplyGap
      /\ \A k \in (headLen + 1 + a)..(p - b - 1) : IsDot(line[k])

\* /^On\s+.{10,100}\s+wrote:\s*$/
OnWrote(line) ==
  /\ StartsWithAt(line, 1, <<"O", "n">>)
  /\ \E p \in 1..Len(line) :
       /\ StartsWithAt(line, p, <<"w", "r", "o", "t", "e", ":">>)
       /\ OnlySpaceFrom(line, p + 6)
       /\ GapBefore(line, 2, p)

\* /^Am\s+.{10,100}\s+schrieb\s+.+:\s*$/
AmSchrieb(line) ==
  /\ StartsWithAt(line, 1, <<"A", "m">>)
  /\ \E p \in 1..Len(line) :
       /\ StartsWithAt(line, p, <<"s", "c", "h", "r", "i", "e", "b">>)
       /\ GapBefore(line, 2, p)
       /\ \E c \in (p + 9)..Len(line) :
            /\ line[c] = ":"
            /\ OnlySpaceFrom(line, c + 1)
            /\ SpaceThenSome(line, p + 7, c - 1)

\* /^Le\s+.{10,100}\s+a\s+.+crit\s*:\s*$/i
LeAEcrit(line) ==
  /\ StartsWithAtCI(line, 1, <<"l", "e">>)
  /\ \E p \in 1..Len(line) :
       /\ Lower(line[p]) = "a"
       /\ GapBefore(line, 2, p)
       /\ \E c \in (p + 3)..Len(line) :
            /\ StartsWithAtCI(line, c, <<"c", "r", "i", "t">>)
            /\ SpaceThenSome(line, p + 1, c - 1)
            /\ LET colon == SkipSpace(line, c + 4)
               IN /\ colon <= Len(line)
                  /\ line[colon] = ":"
                  /\ OnlySpaceFrom(line, colon + 1)

\* /^(NAME|...):\s+.+/ for the names given
HeaderLine(line, names) ==
  \E name \in names :
    /\ StartsWithAt(line, 1, name \o <<":">>)
    /\ \E to \in (Len(name) + 3)..Len(line) : SpaceThenSome(line, Len(name) + 2, to)

\* /^(Von|From|De|Da|Di):\s+.+/
FromHeader(line) == HeaderLine(line, { <<"V", "o", "n">>, <<"F", "r", "o", "m">>, <<"D", "e">>, <<"D", "a">>, <<"D", "i">> })

\* /^(Datum|Date|Fecha|Data):\s+.+/
DateHeader(line) == HeaderLine(line, { <<"D", "a", "t", "u", "m">>, <<"D", "a", "t", "e">>, <<"F", "e", "c", "h", "a">>, <<"D", "a", "t", "a">> })

\* the body of the loop for line i: this line starts quoted content
BoundaryAt(lines, i) ==
  LET line == TrimStr(lines[i])
      last == IF i + HeaderWindow - 1 < Len(lines) THEN i + HeaderWindow - 1 ELSE Len(lines)
  IN \/ ForwardMarker(line)
     \/ BeginForwarded(line)
     \/ OnWrote(line)
     \/ AmSchrieb(line)
     \/ LeAEcrit(line)
     \/ /\ FromHeader(line)
        /\ \E j \in (i + 1)..last : DateHeader(TrimStr(lines[j]))

\* a loop that keeps the last boundary instead of leaving at the first
CutIndexLast(lines) ==
  IF \E i \in DOMAIN lines : BoundaryAt(lines, i)
    THEN CHOOSE i \in DOMAIN lines :
           /\ BoundaryAt(lines, i)
           /\ \A j \in (i + 1)..Len(lines) : ~BoundaryAt(lines, j)
    ELSE 0

\* cutIndex + 1 after the loop: the first boundary line, or 0 when the loop
\* found none
CutIndex(lines) ==
  IF \E i \in DOMAIN lines : BoundaryAt(lines, i)
    THEN CHOOSE i \in DOMAIN lines :
           /\ BoundaryAt(lines, i)
           /\ \A j \in 1..(i - 1) : ~BoundaryAt(lines, j)
    ELSE 0

\* `\n\n[Quoted/forwarded content removed - ${removedChars} chars]`
RemovalNotice(removedChars) ==
  <<"\n", "\n", "[", "Q", "u", "o", "t", "e", "d", "/", "f", "o", "r", "w", "a", "r", "d", "e", "d", " ", "c", "o", "n", "t", "e", "n", "t", " ", "r", "e", "m", "o", "v", "e", "d", " ", "-", " ">> \o ToDecimal(removedChars) \o <<" ", "c", "h", "a", "r", "s", "]">>

\* a removal that goes on to later boundary lines when the first one fails
\* the thresholds
stripQuotedContentRetry(text) ==
  IF text = <<>> THEN <<>>
  ELSE
    LET lines == SplitLines(text)
        Kept(c) == TrimStr(JoinWith(SubSeq(lines, 1, c - 1), <<"\n">>))
        Removed(c) == Len(JoinWith(SubSeq(lines, c, Len(lines)), <<"\n">>))
        cuts == {c \in DOMAIN lines :
                   /\ BoundaryAt(lines, c)
                   /\ Len(Kept(c)) >= MinKeptChars
                   /\ Removed(c) >= MinRemovedChars}
    IN IF cuts = {} THEN text
       ELSE LET cutIndex == CHOOSE c \in cuts : \A j \in cuts : c <= j
            IN Kept(cutIndex) \o RemovalNotice(Removed(cutIndex))

\* a cut that is committed whatever the length of what it removes
stripQuotedContentAnyRemoved(text) ==
  IF text = <<>> THEN <<>>
  ELSE
    LET lines == SplitLines(text)
        cutIndex == CutIndex(lines)
        kept == TrimStr(JoinWith(SubSeq(lines, 1, cutIndex - 1), <<"\n">>))
        removedChars == Len(JoinWith(SubSeq(lines, cutIndex, Len(lines)), <<"\n">>))
    IN IF cutIndex = 0 THEN text
       ELSE IF Len(kept) < MinKeptChars THEN text
       ELSE kept \o RemovalNotice(removedChars)

stripQuotedContent(text) ==
  IF text = <<>> THEN <<>>
  ELSE
    LET lines == SplitLines(text)
        cutIndex == CutIndex(lines)
        kept == TrimStr(JoinWith(SubSeq(lines, 1, cutIndex - 1), <<"\n">>))
        removedChars == Len(JoinWith(SubSeq(lines, cutIndex, Len(lines)), <<"\n">>))
    IN IF cutIndex = 0 THEN text
       ELSE IF Len(kept) < MinKeptChars THEN text
       ELSE IF removedChars < MinRemovedChars THEN text
       ELSE kept \o RemovalNotice(removedChars)

\* ------------------------------------------------------- normalizer inputs
\* the most elements of a message body
MaxElems == 3

\* the most fragments of a text given to stripHtml
MaxFragments == 2

\* the most pieces of a text given to stripQuotedContent
MaxLines == 3

\* the length of a line of an earlier message, and the lines it has
LineLength == 30
BlockLines == 4

\* config.formatting.maxBodyLength when it is set
MaxBodyLength == 3

\* n characters of running text
Filler(n) == [i \in 1..n |-> "z"]

\* the sequences of at most n members of S
RECURSIVE SeqsUpTo(_, _)
SeqsUpTo(S, n) ==
  IF n = 0 THEN {<<>>}
  ELSE LET shorter == SeqsUpTo(S, n - 1)
       IN shorter \cup {Append(t, x) : t \in {u \in shorter : Len(u) = n - 1}, x \in S}

RECURSIVE Concat(_)
Concat(parts) == IF parts = <<>> THEN <<>> ELSE Head(parts) \o Concat(Tail(parts))

Attr(name, value, quote) == [name |-> name, value |-> value, quote |-> quote]

ImgElement(open, attrs, close) ==
  [kind |-> "img", open |-> open, attrs |-> attrs, close |-> close]

TextElement(text) == [kind |-> "text", text |-> text]

\* the elements a body is made of: running text, images with quoted,
\* unquoted, upper-case and data-* attributes, and 1x1 tracking pixels
BodyElements ==
  { TextElement(<<"H", "i", " ">>),
    ImgElement(<<"<", "i", "m", "g">>, <<Attr(<<"s", "r", "c">>, <<"h", "t", "t", "p", ":", "/", "/", "a">>, <<"\"">>), Attr(<<"a", "l", "t">>, <<"x">>, <<"\"">>)>>, <<">">>),
    ImgElement(<<"<", "i", "m", "g">>, <<Attr(<<"s", "r", "c">>, <<"c", "i", "d", ":", "b">>, <<"\"">>), Attr(<<"w", "i", "d", "t", "h">>, <<"1", "0">>, <<"\"">>),
                           Attr(<<"h", "e", "i", "g", "h", "t">>, <<"1">>, <<"\"">>)>>, <<">">>),
    ImgElement(<<"<", "I", "M", "G">>, <<Attr(<<"S", "R", "C">>, <<"h", "t", "t", "p", "s", ":", "/", "/", "c">>, <<"'">>), Attr(<<"A", "L", "T">>, <<>>, <<"'">>),
                           Attr(<<"W", "I", "D", "T", "H">>, <<"1">>, <<>>), Attr(<<"H", "E", "I", "G", "H", "T">>, <<"2">>, <<>>)>>, <<" ", "/", ">">>),
    ImgElement(<<"<", "i", "m", "g">>, <<Attr(<<"s", "r", "c">>, <<"h", "t", "t", "p", ":", "/", "/", "t">>, <<"\"">>), Attr(<<"w", "i", "d", "t", "h">>, <<"1">>, <<"\"">>),
                           Attr(<<"h", "e", "i", "g", "h", "t">>, <<"1">>, <<"\"">>)>>, <<">">>),
    ImgElement(<<"<", "i", "m", "g">>, <<Attr(<<"h", "e", "i", "g", "h", "t">>, <<"1">>, <<"'">>), Attr(<<"w", "i", "d", "t", "h">>, <<"1">>, <<>>),
                           Attr(<<"s", "r", "c">>, <<"h", "t", "t", "p", ":", "/", "/", "t">>, <<"\"">>)>>, <<" ", "/", ">">>),
    ImgElement(<<"<", "i", "m", "g">>, <<Attr(<<"a", "l", "t">>, <<"i", "t", "'", "s">>, <<"\"">>), Attr(<<"s", "r", "c">>, <<"h", "t", "t", "p", ":", "/", "/", "d">>, <<"\"">>)>>, <<">">>),
    ImgElement(<<"<", "i", "m", "g">>, <<Attr(<<"d", "a", "t", "a", "-", "w", "i", "d", "t", "h">>, <<"9">>, <<"\"">>), Attr(<<"w", "i", "d", "t", "h">>, <<"1">>, <<"\"">>),
                           Attr(<<"h", "e", "i", "g", "h", "t">>, <<"1">>, <<"\"">>), Attr(<<"s", "r", "c">>, <<"h", "t", "t", "p", ":", "/", "/", "t">>, <<"\"">>)>>, <<">">>) }

\* the markup of an element
RECURSIVE RenderAttrs(_)
RenderAttrs(attrs) ==
  IF attrs = <<>> THEN <<>>
  ELSE LET a == Head(attrs)
       IN <<" ">> \o a.name \o <<"=">> \o a.quote \o a.value \o a.quote \o RenderAttrs(Tail(attrs))

Render(el) ==
  IF el.kind = "text" THEN el.text
  ELSE el.open \o RenderAttrs(el.attrs) \o el.close

RenderBody(body) == Concat([k \in DOMAIN body |-> Render(body[k])])

\* the bodies given to extractInlineImages, with their markup
ImageInputs ==
  {[body |-> b, html |-> RenderBody(b)] : b \in SeqsUpTo(BodyElements, MaxElems)}

\* the pieces the texts given to stripHtml are made of
HtmlFragments ==
  { <<"a">>, <<" ">>, <<"\n">>, <<"<", "b", ">">>, <<"<", "/", "p", ">">>, <<"<", "b", "r", "/", ">">>,
    <<"&", "a", "m", "p", ";">>, <<"&", "l", "t", ";">>, <<"&", "g", "t", ";">>, <<"&", "q", "u", "o", "t", ";">>, <<"&", "#", "3", "9", ";">>, <<"&", "n", "b", "s", "p", ";">>, <<"a", "m", "p", ";">>, <<"a", "&", "g", "t", ";">>, <<"b", " ", "c">>,
    <<"<", "b", "l", "o", "c", "k", "q", "u", "o", "t", "e", ">">>,
    <<"<", "d", "i", "v", " ", "c", "l", "a", "s", "s", "=", "\"", "g", "m", "a", "i", "l", "_", "q", "u", "o", "t", "e", "\"", ">">>,
    <<"<", "d", "i", "v", " ", "i", "d", "=", "\"", "a", "p", "p", "e", "n", "d", "o", "n", "s", "e", "n", "d", "\"", ">">>,
    <<"<", "d", "i", "v", " ", "d", "i", "r", "=", "\"", "l", "t", "r", "\"", " ", "c", "l", "a", "s", "s", "=", "\"", "x", " ", "y", "a", "h", "o", "o", "_", "q", "u", "o", "t", "e", "d", "\"", ">">> }

\* the texts given to stripHtml: fragments, alone or after running text of
\* QuoteGuard characters, of one more, or of one more behind a container
\* that opens the text
StripHtmlInputs ==
  {[html |-> lead \o Concat(f), maxLength |-> m] :
     lead \in {<<>>, Filler(QuoteGuard), Filler(QuoteGuard + 1),
               <<"<", "b", "l", "o", "c", "k", "q", "u", "o", "t", "e", ">">> \o Filler(QuoteGuard + 1)},
     f \in SeqsUpTo(HtmlFragments, MaxFragments),
     m \in Optional({MaxBodyLength})}

\* the lines of an earlier message
Block == JoinWith([i \in 1..BlockLines |-> Filler(LineLength)], <<"\n">>)

\* the pieces the texts given to stripQuotedContent are made of
TextLines ==
  { <<"H", "e", "l", "l", "o", " ", "t", "h", "e", "r", "e", ",">>, <<>>, <<"h", "i">>,
    <<"F", "r", "o", "m", ":", " ", "a">>,
    <<"D", "a", "t", "e", ":", " ", "1", " ", "J", "a", "n">> \o <<"\n">> \o Block,
    <<"-", "-", "-", " ", "O", "r", "i", "g", "i", "n", "a", "l", " ", "M", "e", "s", "s", "a", "g", "e", " ", "-", "-", "-">>,
    <<"B", "e", "g", "i", "n", " ", "f", "o", "r", "w", "a", "r", "d", "e", "d", " ", "m", "e", "s", "s", "a", "g", "e", ":">>,
    <<"O", "n", " ", "M", "o", "n", ",", " ", "1", " ", "J", "a", "n", " ", "2", "0", "2", "4", ",", " ", "M", "a", "x", " ", "<", "m", "@", "x", ".", "i", "o", ">", " ", "w", "r", "o", "t", "e", ":">>,
    <<"A", "m", " ", "0", "1", ".", "0", "1", ".", "2", "0", "2", "4", " ", "u", "m", " ", "1", "0", ":", "0", "0", " ", "s", "c", "h", "r", "i", "e", "b", " ", "M", "a", "x", ":">>,
    <<"L", "e", " ", "1", " ", "j", "a", "n", "v", ".", " ", "2", "0", "2", "4", ",", " ", "M", "a", "x", " ", "a", " ", "e", "c", "r", "i", "t", " ", ":">>,
    Block }

\* a header line with its date line as the last line of the window, and
\* as the first line after it
WindowTexts ==
  { <<<<"H", "e", "l", "l", "o", " ", "t", "h", "e", "r", "e", ",">>, <<"F", "r", "o", "m", ":", " ", "a">>>> \o [i \in 1..n |-> <<>>]
      \o <<<<"D", "a", "t", "e", ":", " ", "1", " ", "J", "a", "n">>, Block>> : n \in {HeaderWindow - 2, HeaderWindow - 1} }

StripQuotedInputs ==
  {[text |-> JoinWith(ls, <<"\n">>)] : ls \in SeqsUpTo(TextLines, MaxLines) \cup WindowTexts}

\* ------------------------------------------------------- normalizer calls
\* extractInlineImages(body)
ExtractInlineImagesCall ==
  /\ pc = "call"
  /\ op = "extractInlineImages"
  /\ outcome' = [kind |-> "images", value |-> extractInlineImages(input.html)]
  /\ pc' = "done"
  /\ UNCHANGED <<op, input, branch, idx, allResults, callHistory>>

\* text = stripHtml(body, config.formatting.maxBodyLength || undefined)
StripHtmlCall ==
  /\ pc = "call"
  /\ op = "stripHtml"
  /\ outcome' = [kind |-> "text", first |-> stripHtml(input.html, input.maxLength)]
  /\ pc' = "once"
  /\ UNCHANGED <<op, input, branch, idx, allResults, callHistory>>

\* stripHtml applied to its own output, with the same maxLength
StripHtmlAgain ==
  /\ pc = "once"
  /\ op = "stripHtml"
  /\ outcome' = [kind |-> "texts", first |-> outcome.first,
                 second |-> stripHtml(outcome.first, input.maxLength)]
  /\ pc' = "twice"
  /\ UNCHANGED <<op, input, branch, idx, allResults, callHistory>>

\* text = stripQuotedContent(text)
StripQuotedContentCall ==
  /\ pc = "call"
  /\ op = "stripQuotedContent"
  /\ outcome' = [kind |-> "text", first |-> stripQuotedContent(input.text)]
  /\ pc' = "once"
  /\ UNCHANGED <<op, input, branch, idx, allResults, callHistory>>

\* stripQuotedContent applied to its own output
StripQuotedContentAgain ==
  /\ pc = "once"
  /\ op = "stripQuotedContent"
  /\ outcome' = [kind |-> "texts", first |-> outcome.first,
                 second |-> stripQuotedContent(outcome.first)]
  /\ pc' = "twice"
  /\ UNCHANGED <<op, input, branch, idx, allResults, callHistory>>

InitHtml ==
  /\ \/ op = "extractInlineImages" /\ input \in ImageInputs
     \/ op = "stripHtml" /\ input \in StripHtmlInputs
     \/ op = "stripQuotedContent" /\ input \in StripQuotedInputs
  /\ pc = "call"
  /\ branch = <<>>
  /\ idx = 0
  /\ allResults = <<>>
  /\ outcome = [kind |-> "none"]
  /\ callHistory = <<>>

NextHtml ==
  \/ ExtractInlineImagesCall
  \/ StripHtmlCall
  \/ StripHtmlAgain
  \/ StripQuotedContentCall
  \/ StripQuotedContentAgain

SpecHtml == InitHtml /\ [][NextHtml]_vars

\* ---------------------------------------------------- C17, C18, C19, C20
Extracted == op = "extractInlineImages" /\ pc = "done"

\* the value of the attribute an image element declares under a name
Declared(el, name) ==
  LET hits == SelectSeq(el.attrs, LAMBDA a : LowerStr(a.name) = name)
  IN IF hits = <<>> THEN None ELSE Some(hits[1].value)

\* a tracking pixel: declared width and declared height are both 1
IsPixel(el) ==
  /\ el.kind = "img"
  /\ Declared(el, <<"w", "i", "d", "t", "h">>) = Some(<<"1">>)
  /\ Declared(el, <<"h", "e", "i", "g", "h", "t">>) = Some(<<"1">>)

WithoutPixels(body) == SelectSeq(body, LAMBDA el : ~IsPixel(el))

RetainedImages(body) == SelectSeq(body, LAMBDA el : el.kind = "img" /\ ~IsPixel(el))

\* C17: a tracking pixel leaves no trace.  The images and the markup
\* returned for a body are those returned for the same body without its
\* elements of declared width 1 and height 1, and no more images are
\* returned than the body has images that are no pixel.
C17_PixelsLeaveNoTrace ==
  Extracted =>
    /\ outcome.value = extractInlineImages(RenderBody(WithoutPixels(input.body)))
    /\ Len(outcome.value.images) <= Len(RetainedImages(input.body))

DeclaredAlt(el) ==
  IF Declared(el, <<"a", "l", "t">>) = None THEN <<>> ELSE Declared(el, <<"a", "l", "t">>)[1]

Placeholder(k, alt) ==
  IF alt # <<>>
    THEN <<"[", "I", "m", "a", "g", "e", " ">> \o ToDecimal(k) \o <<":", " ">> \o alt \o <<"]">>
    ELSE <<"[", "I", "m", "a", "g", "e", " ">> \o ToDecimal(k) \o <<"]">>

\* the markup with the k-th retained image replaced by its placeholder
\* and the pixels deleted, n images being retained so far
RECURSIVE ExpectedMarkup(_, _)
ExpectedMarkup(body, n) ==
  IF body = <<>> THEN <<>>
  ELSE LET el == Head(body)
       IN IF el.kind = "text" THEN el.text \o ExpectedMarkup(Tail(body), n)
          ELSE IF IsPixel(el) THEN ExpectedMarkup(Tail(body), n)
          ELSE Placeholder(n + 1, DeclaredAlt(el)) \o ExpectedMarkup(Tail(body), n + 1)

\* C18: the returned images carry the indices 1..n in document order, n
\* being the number of images of the body that are no pixel, and the k-th
\* of them is replaced in the markup by [Image k: alt] when its alt text
\* is not empty and by [Image k] when it is.
C18_ContiguousIndicesAndPlaceholders ==
  Extracted =>
    /\ Len(outcome.value.images) = Len(RetainedImages(input.body))
    /\ \A k \in DOMAIN outcome.value.images : outcome.value.images[k].index = k
    /\ outcome.value.html = ExpectedMarkup(input.body, 0)

\* C19: stripHtml applied to its own output with the same maximum length
\* returns that output unchanged.
C19_StripHtmlIdempotent ==
  (op = "stripHtml" /\ pc = "twice") => outcome.second = outcome.first

\* stripQuotedContent committed a cut on the text it was given
CutCommitted == outcome.first # input.text

\* C20: stripQuotedContent applied to its own output returns that output
\* unchanged, and after a committed cut no line of the output, the
\* removal notice included, is detected as a quote boundary.
C20_StripQuotedContentIdempotent ==
  (op = "stripQuotedContent" /\ pc = "twice") =>
    /\ outcome.second = outcome.first
    /\ CutCommitted =>
         LET lines == SplitLines(outcome.first)
         IN /\ \A i \in DOMAIN lines : ~BoundaryAt(lines, i)
            /\ EndsWith(outcome.first, <<" ", "c", "h", "a", "r", "s", "]">>)

\* a cut was committed and the output was given to stripQuotedContent again
C20_Witness ==
  /\ op = "stripQuotedContent"
  /\ pc = "twice"
  /\ CutCommitted
  /\ outcome.second = outcome.first

\* ------------------------------------------------------------------- C21
QuotedOnce == op = "stripQuotedContent" /\ pc = "once"

\* the lines where a cut is proposed: the first boundary line, if any
ProposedCuts(lines) ==
  {c \in DOMAIN lines : BoundaryAt(lines, c) /\ \A j \in 1..(c - 1) : ~BoundaryAt(lines, j)}

\* the retained prefix and the removed suffix of a cut at line c
RetainedPrefix(lines, c) == TrimStr(JoinWith(SubSeq(lines, 1, c - 1), <<"\n">>))
RemovedSuffix(lines, c) == JoinWith(SubSeq(lines, c, Len(lines)), <<"\n">>)

\* the thresholds of a cut at line c
Committable(lines, c) ==
  /\ Len(RetainedPrefix(lines, c)) >= 10
  /\ Len(RemovedSuffix(lines, c)) >= 100

\* C21: the proposed cut is committed only if the retained prefix has at
\* least 10 characters and the removed suffix at least 100; the output is
\* then the retained prefix followed by the notice that states the length
\* of the removed suffix; in every other case the text comes back unchanged.
C21_CutOnlyWithinThresholds ==
  QuotedOnce =>
    LET lines == SplitLines(input.text)
    IN IF \E c \in ProposedCuts(lines) : Committable(lines, c)
         THEN \A c \in ProposedCuts(lines) :
                outcome.first =
                  RetainedPrefix(lines, c)
                    \o <<"\n", "\n", "[", "Q", "u", "o", "t", "e", "d", "/", "f", "o", "r", "w", "a", "r", "d", "e", "d", " ", "c", "o", "n", "t", "e", "n", "t", " ", "r", "e", "m", "o", "v", "e", "d", " ", "-", " ">>
                    \o ToDecimal(Len(RemovedSuffix(lines, c)))
                    \o <<" ", "c", "h", "a", "r", "s", "]">>
         ELSE outcome.first = input.text

\* a cut was committed
C21_Witness ==
  /\ QuotedOnce
  /\ outcome.first # input.text
  /\ \E c \in ProposedCuts(SplitLines(input.text)) : Committable(SplitLines(input.text), c)

\* a cut was proposed and refused for what it would have removed
C21_RefusedWitness ==
  /\ QuotedOnce
  /\ outcome.first = input.text
  /\ \E c \in ProposedCuts(SplitLines(input.text)) :
       Len(RetainedPrefix(SplitLines(input.text), c)) >= 10

\* =============================================================== C25
\* stripHtml without the removal of a quote container: the text of markup
MarkupToText(markup, maxLength) ==
  LET breaks == RegexReplace(markup, "br", <<"\n">>)
      blocks == RegexReplace(breaks, "closeBlock", <<"\n">>)
      untagged == RegexReplace(blocks, "tag", <<>>)
      decoded == DecodeEntities(untagged)
      collapsed == RegexReplace(decoded, "blank", <<" ">>)
      spaced == RegexReplace(collapsed, "newlines", <<"\n", "\n">>)
      text == TrimStr(spaced)
  IN IF maxLength # None /\ maxLength[1] # 0
       THEN SubSeq(text, 1, IF maxLength[1] < Len(text) THEN maxLength[1] ELSE Len(text))
       ELSE text

StrippedOnce == op = "stripHtml" /\ pc = "once"

Least(S) == CHOOSE k \in S : \A j \in S : k <= j

\* the positions of html where a quote container of the fixed set starts
ContainerStarts(html) ==
  {k \in 1..Len(html) : \E n \in 1..4 : QuotePatternAt(n, html, k)}

\* C25 as stated: a quote container that starts after at least 50
\* characters of markup has everything from its start on removed, and
\* containers that start earlier cause no truncation.
C25_ContainerAfterFiftyCut ==
  StrippedOnce =>
    LET late == {k \in ContainerStarts(input.html) : k - 1 >= 50}
    IN outcome.first =
         MarkupToText(IF late = {} THEN input.html
                      ELSE SubSeq(input.html, 1, Least(late) - 1),
                      input.maxLength)

\* the patterns whose leftmost match starts after more than 50 characters
EligiblePatterns(html) ==
  {n \in 1..4 : \E k \in 1..Len(html) :
     /\ QuotePatternAt(n, html, k)
     /\ \A j \in 1..(k - 1) : ~QuotePatternAt(n, html, j)
     /\ k - 1 > 50}

\* C25, amended: the containers are tried in the order blockquote,
\* gmail_quote, appendonsend, yahoo_quoted, each at its leftmost
\* occurrence only; the first of them whose leftmost occurrence starts
\* after more than 50 characters has everything from that start on
\* removed, and when there is none the markup is not truncated.
C25_FirstEligiblePatternCut ==
  StrippedOnce =>
    LET eligible == EligiblePatterns(input.html)
        start == Least({k \in 1..Len(input.html) :
                          QuotePatternAt(Least(eligible), input.html, k)})
    IN outcome.first =
         MarkupToText(IF eligible = {} THEN input.html
                      ELSE SubSeq(input.html, 1, start - 1),
                      input.maxLength)

\* a container was cut off and what followed it is gone from the text
C25_Witness ==
  /\ StrippedOnce
  /\ EligiblePatterns(input.html) # {}
  /\ outcome.first # MarkupToText(input.html, input.maxLength)

\* a container after exactly 50 characters stays, with the text behind it
C25_GuardWitness ==
  /\ StrippedOnce
  /\ EligiblePatterns(input.html) = {}
  /\ \E k \in ContainerStarts(input.html) : k - 1 = 50
  /\ outcome.first # MarkupToText(SubSeq(input.html, 1, 50), input.maxLength)

\* =============================================================== C26
\* a line that starts quoted content when a header-field line counts with
\* a date-field line among the 8 lines that follow it
BoundaryWithinEight(lines, i) ==
  LET line == TrimStr(lines[i])
      last == IF i + 8 < Len(lines) THEN i + 8 ELSE Len(lines)
  IN \/ ForwardMarker(line)
     \/ BeginForwarded(line)
     \/ OnWrote(line)
     \/ AmSchrieb(line)
     \/ LeAEcrit(line)
     \/ /\ FromHeader(line)
        /\ \E j \in (i + 1)..last : DateHeader(TrimStr(lines[j]))

\* C26: a header-field line is a boundary exactly when a date-field line
\* is among the 8 lines that follow it (lines i+1 .. i+8); the text is cut
\* at the first boundary line when the thresholds allow it and is returned
\* unchanged otherwise.
C26_DateWithinNextEightLines ==
  QuotedOnce =>
    LET lines == SplitLines(input.text)
        bounds == {i \in DOMAIN lines : BoundaryWithinEight(lines, i)}
    IN IF bounds # {} /\ Committable(lines, Least(bounds))
         THEN outcome.first =
                RetainedPrefix(lines, Least(bounds))
                  \o <<"\n", "\n", "[", "Q", "u", "o", "t", "e", "d", "/", "f", "o", "r", "w", "a", "r", "d", "e", "d", " ", "c", "o", "n", "t", "e", "n", "t", " ", "r", "e", "m", "o", "v", "e", "d", " ", "-", " ">>
                  \o ToDecimal(Len(RemovedSuffix(lines, Least(bounds))))
                  \o <<" ", "c", "h", "a", "r", "s", "]">>
         ELSE outcome.first = input.text

\* =============================================================== C27
\* the boundary lines of a text
Boundaries(lines) == {i \in DOMAIN lines : BoundaryAt(lines, i)}

\* C27: only the first boundary line is considered.  The output is the
\* text or the text cut at its first boundary line, and when the cut at
\* the first boundary line fails a threshold the text is returned
\* unchanged, whatever later boundary lines would allow.
C27_OnlyFirstBoundaryConsidered ==
  QuotedOnce =>
    LET lines == SplitLines(input.text)
        first == Least(Boundaries(lines))
    IN Boundaries(lines) # {} =>
         /\ \/ outcome.first = input.text
            \/ outcome.first =
                 RetainedPrefix(lines, first)
                   \o <<"\n", "\n", "[", "Q", "u", "o", "t", "e", "d", "/", "f", "o", "r", "w", "a", "r", "d", "e", "d", " ", "c", "o", "n", "t", "e", "n", "t", " ", "r", "e", "m", "o", "v", "e", "d", " ", "-", " ">>
                   \o ToDecimal(Len(RemovedSuffix(lines, first)))
                   \o <<" ", "c", "h", "a", "r", "s", "]">>
         /\ ~Committable(lines, first) => outcome.first = input.text

\* the first boundary line fails a threshold, a later one passes both, and
\* the text came back unchanged
C27_Witness ==
  /\ QuotedOnce
  /\ outcome.first = input.text
  /\ LET lines == SplitLines(input.text)
     IN /\ Boundaries(lines) # {}
        /\ ~Committable(lines, Least(Boundaries(lines)))
        /\ \E c \in Boundaries(lines) : Committable(lines, c)

\* ======================================================= message bodies
\* HELPSCOUT_MAX_BODY_LENGTH when it is set
BodyLimit == 150

\* the most threads of a conversation
MaxThreads == 2

\* the createdAt values of threads
ThreadTimes == 1..2

RedactedBody == <<"[", "C", "o", "n", "t", "e", "n", "t", " ", "h", "i", "d", "d", "e", "n", " ", "-", " ", "s", "e", "t", " ", "R", "E", "D", "A", "C", "T", "_", "M", "E", "S", "S", "A", "G", "E", "_", "C", "O", "N", "T", "E", "N", "T", "=", "f", "a", "l", "s", "e", " ", "t", "o", " ", "v", "i", "e", "w", "]">>

\* config.security.allowPii and config.formatting
Configs ==
  [allowPii : BOOLEAN, stripHtml : BOOLEAN, maxBodyLength : {0, BodyLimit}]

\* config.formatting.maxBodyLength || undefined
MaxLengthOf(cfg) == IF cfg.maxBodyLength = 0 THEN None ELSE Some(cfg.maxBodyLength)

\* processBody of getConversationSummary; an undefined body is None
processBody(body, cfg) ==
  IF ~cfg.allowPii THEN Some(RedactedBody)
  ELSE IF ~Truthy(body) THEN Some(<<>>)
  ELSE IF cfg.stripHtml
    THEN Some(stripQuotedContent(stripHtml(body[1], MaxLengthOf(cfg))))
  ELSE body

\* a thread body that is left alone when it is empty, whatever the configuration
ThreadBodyBlankFirst(rawBody, cfg) ==
  IF ~Truthy(rawBody) THEN rawBody
  ELSE IF ~cfg.allowPii THEN Some(RedactedBody)
  ELSE IF cfg.stripHtml
    THEN Some(stripQuotedContent(stripHtml(rawBody[1], MaxLengthOf(cfg))))
  ELSE rawBody

\* the body of a processed thread of getThreads
ThreadBody(rawBody, cfg) ==
  LET body == IF cfg.allowPii THEN rawBody ELSE Some(RedactedBody)
  IN IF cfg.allowPii /\ cfg.stripHtml /\ Truthy(body)
       THEN Some(stripQuotedContent(stripHtml(body[1], MaxLengthOf(cfg))))
       ELSE body

\* the first of the threads that satisfy keep, in the order that a stable
\* sort by createdAt gives them (ascending, or descending with latest)
FirstSorted(threads, keep(_), latest) ==
  LET kept == SelectSeq(threads, keep)
      Before(a, b) == IF latest THEN a.createdAt > b.createdAt ELSE a.createdAt < b.createdAt
  IN IF kept = <<>> THEN None
     ELSE Some(kept[CHOOSE i \in DOMAIN kept :
                      /\ \A j \in DOMAIN kept : ~Before(kept[j], kept[i])
                      /\ \A j \in 1..(i - 1) : Before(kept[i], kept[j])])

IsCustomerThread(t) == t.type = "customer"
IsStaffThread(t) == t.type = "message" /\ t.createdBy

\* the summary of getConversationSummary, as far as message bodies go
SummaryOf(threads, cfg) ==
  LET firstCustomerMessage == FirstSorted(threads, IsCustomerThread, FALSE)
      latestStaffReply == FirstSorted(threads, IsStaffThread, TRUE)
  IN [firstCustomerMessage |->
        IF firstCustomerMessage = None THEN None
        ELSE Some([createdAt |-> firstCustomerMessage[1].createdAt,
                   body |-> processBody(firstCustomerMessage[1].body, cfg)]),
      latestStaffReply |->
        IF latestStaffReply = None THEN None
        ELSE Some([createdAt |-> latestStaffReply[1].createdAt,
                   body |-> processBody(latestStaffReply[1].body, cfg)])]

\* the processed threads of getThreads
ProcessedThreads(threads, cfg) ==
  [k \in DOMAIN threads |->
     [type |-> threads[k].type, createdAt |-> threads[k].createdAt,
      body |-> ThreadBody(threads[k].body, cfg)]]

\* ------------------------------------------------------------- inputs
\* a reply above a quoted message that is longer than BodyLimit
LongBody ==
  <<"H", "e", "l", "l", "o", " ", "t", "h", "e", "r", "e", ",">> \o <<"\n">> \o <<"-", "-", "-", " ", "O", "r", "i", "g", "i", "n", "a", "l", " ", "M", "e", "s", "s", "a", "g", "e", " ", "-", "-", "-">> \o <<"\n">> \o Block

\* the raw bodies the API returns (None: no body)
RawBodies ==
  { None,
    Some(<<"S", "e", "e", " ", "<", "i", "m", "g", " ", "s", "r", "c", "=", "\"", "h", "t", "t", "p", ":", "/", "/", "a", "\"", " ", "a", "l", "t", "=", "\"", "x", "\"", ">">>),
    Some(<<"H", "e", "l", "l", "o", " ", "t", "h", "e", "r", "e", ",">> \o <<"\n">> \o <<"-", "-", "-", " ", "O", "r", "i", "g", "i", "n", "a", "l", " ", "M", "e", "s", "s", "a", "g", "e", " ", "-", "-", "-">>),
    Some(LongBody) }

\* the bodies of the second run of a redacted call
TwinBodies == { Some(<<>>), Some(<<"<", "p", ">", "H", "i", "<", "/", "p", ">">>) }

ThreadKinds ==
  { [type |-> "customer", createdBy |-> FALSE],
    [type |-> "message", createdBy |-> TRUE],
    [type |-> "note", createdBy |-> TRUE] }

Threads ==
  {[type |-> k.type, createdBy |-> k.createdBy, createdAt |-> t, body |-> b] :
     k \in ThreadKinds, t \in ThreadTimes, b \in RawBodies}

\* the same threads, each with the body b
WithBody(threads, b) ==
  [k \in DOMAIN threads |-> [threads[k] EXCEPT !.body = b]]

\* a configuration, the threads of the conversation, and the threads of a
\* second run that differs from the first in the raw bodies only; the
\* second run is the first one unless content is redacted
BodyInputs ==
  UNION {
    IF c.allowPii
      THEN {[cfg |-> c, threads |-> ts, twin |-> ts]}
      ELSE {[cfg |-> c, threads |-> ts, twin |-> WithBody(ts, b)] : b \in TwinBodies} :
    c \in Configs, ts \in SeqsUpTo(Threads, MaxThreads) }

\* ------------------------------------------------------------- handlers
\* getThreads, for both runs
GetThreadsCall ==
  /\ pc = "call"
  /\ op = "getThreads"
  /\ outcome' = [kind |-> "result",
                 threads |-> ProcessedThreads(input.threads, input.cfg),
                 twin |-> ProcessedThreads(input.twin, input.cfg)]
  /\ pc' = "done"
  /\ UNCHANGED <<op, input, branch, idx, allResults, callHistory>>

\* getThreads when helpScoutClient.get rejects
GetThreadsReject ==
  /\ pc = "call"
  /\ op = "getThreads"
  /\ outcome' = [kind |-> "error"]
  /\ pc' = "done"
  /\ UNCHANGED <<op, input, branch, idx, allResults, callHistory>>

\* getConversationSummary, for both runs
GetConversationSummaryCall ==
  /\ pc = "call"
  /\ op = "getConversationSummary"
  /\ outcome' = [kind |-> "result",
                 summary |-> SummaryOf(input.threads, input.cfg),
                 twin |-> SummaryOf(input.twin, input.cfg)]
  /\ pc' = "done"
  /\ UNCHANGED <<op, input, branch, idx, allResults, callHistory>>

\* getConversationSummary when one of its two fetches rejects
GetConversationSummaryReject ==
  /\ pc = "call"
  /\ op = "getConversationSummary"
  /\ outcome' = [kind |-> "error"]
  /\ pc' = "done"
  /\ UNCHANGED <<op, input, branch, idx, allResults, callHistory>>

InitBody ==
  /\ op \in {"getThreads", "getConversationSummary"}
  /\ input \in BodyInputs
  /\ pc = "call"
  /\ branch = <<>>
  /\ idx = 0
  /\ allResults = <<>>
  /\ outcome = [kind |-> "none"]
  /\ callHistory = <<>>

NextBody ==
  \/ GetThreadsCall
  \/ GetThreadsReject
  \/ GetConversationSummaryCall
  \/ GetConversationSummaryReject

SpecBody == InitBody /\ [][NextBody]_vars

\* ------------------------------------------------------------- properties
BodyDone ==
  /\ op \in {"getThreads", "getConversationSummary"}
  /\ pc = "done"
  /\ outcome.kind = "result"

\* the raw body and the returned body of every thread of a getThreads result
ThreadPairs(threads, result) ==
  {[raw |-> threads[k].body, body |-> result[k].body] : k \in DOMAIN threads}

\* the raw body and the returned body of the messages of a summary
SummaryPairs(threads, summary) ==
  (IF summary.firstCustomerMessage = None THEN {}
   ELSE {[raw |-> FirstSorted(threads, IsCustomerThread, FALSE)[1].body,
          body |-> summary.firstCustomerMessage[1].body]})
  \cup
  (IF summary.latestStaffReply = None THEN {}
   ELSE {[raw |-> FirstSorted(threads, IsStaffThread, TRUE)[1].body,
          body |-> summary.latestStaffReply[1].body]})

\* the bodies the finished call returns, each with the raw body it came from
BodiesReturned ==
  IF op = "getThreads" THEN ThreadPairs(input.threads, outcome.threads)
  ELSE SummaryPairs(input.threads, outcome.summary)

\* the same for the second run
TwinBodiesReturned ==
  IF op = "getThreads" THEN ThreadPairs(input.twin, outcome.twin)
  ELSE SummaryPairs(input.twin, outcome.twin)

\* image extraction, then stripping, then quoted-content removal
ThreeStages(raw, cfg) ==
  stripQuotedContent(stripHtml(extractInlineImages(raw).html, MaxLengthOf(cfg)))

\* C22: with content visible and HTML stripping enabled, every body that
\* getThreads and getConversationSummary return is the raw body after image
\* extraction (placeholders in place of the img tags), HTML stripping and
\* quoted-content removal, in that order
C22_ThreeStagesInOrder ==
  (BodyDone /\ input.cfg.allowPii /\ input.cfg.stripHtml)
    => \A p \in BodiesReturned :
         Truthy(p.raw) => p.body = Some(ThreeStages(p.raw[1], input.cfg))

\* C23: with allowPii false every returned body is the one placeholder, and
\* two runs that differ in the raw bodies only return the same body fields
C23_RedactedBodiesIndistinguishable ==
  (BodyDone /\ ~input.cfg.allowPii)
    => /\ \A p \in BodiesReturned \cup TwinBodiesReturned : p.body = Some(RedactedBody)
       /\ IF op = "getThreads"
            THEN /\ DOMAIN outcome.threads = DOMAIN outcome.twin
                 /\ \A k \in DOMAIN outcome.threads :
                      outcome.threads[k].body = outcome.twin[k].body
            ELSE outcome.summary = outcome.twin

\* a redacted result that returns a body whose raw text differs between the runs
C23_Witness ==
  /\ BodyDone
  /\ ~input.cfg.allowPii
  /\ BodiesReturned # {}
  /\ \E p \in BodiesReturned : p.raw = None
  /\ \E p \in BodiesReturned : Truthy(p.raw)
  /\ \E p \in TwinBodiesReturned : Truthy(p.raw)
  /\ {p.raw : p \in BodiesReturned} # {p.raw : p \in TwinBodiesReturned}

\* C28: stripQuotedContent returns no more characters than it is given, so
\* a body truncated to the configured maximum is within the maximum when
\* getThreads or getConversationSummary return it
C28_QuotedRemovalNeverLengthens ==
  (BodyDone /\ input.cfg.allowPii /\ input.cfg.stripHtml)
    => \A p \in BodiesReturned :
         Truthy(p.raw) =>
           LET stripped == stripHtml(p.raw[1], MaxLengthOf(input.cfg))
           IN /\ p.body = Some(stripQuotedContent(stripped))
              /\ Len(p.body[1]) <= Len(stripped)
              /\ input.cfg.maxBodyLength > 0
                   => Len(p.body[1]) <= input.cfg.maxBodyLength

\* a body that was truncated to the maximum and then lost its quoted part
C28_Witness ==
  /\ BodyDone
  /\ input.cfg.allowPii
  /\ input.cfg.stripHtml
  /\ input.cfg.maxBodyLength > 0
  /\ \E p \in BodiesReturned :
       /\ Truthy(p.raw)
       /\ Len(stripHtml(p.raw[1], None)) > input.cfg.maxBodyLength
       /\ Len(stripHtml(p.raw[1], MaxLengthOf(input.cfg))) = input.cfg.maxBodyLength
       /\ p.body[1] # stripHtml(p.raw[1], MaxLengthOf(input.cfg))
       /\ Len(p.body[1]) < input.cfg.maxBodyLength

\* ============================================================= callTool
\* the most invocations whose handler returns
MaxCalls == 2

\* the cases of the switch over request.params.name
ToolNames ==
  { "searchInboxes", "searchConversations", "getConversationSummary",
    "getThreads", "getServerTime", "listAllInboxes",
    "advancedConversationSearch", "comprehensiveConversationSearch",
    "structuredConversationFilter", "listUsers", "getCompanyReport",
    "getUserReport", "getProductivityReport", "getAttachments",
    "getAttachmentData" }

\* the names a request may carry
RequestNames == ToolNames \cup {"deleteConversation"}

\* callTool(request) up to the call of validateToolCall: validationContext
\* takes a copy of the call history
CallTool ==
  /\ pc \in {"idle", "done"}
  /\ Len(callHistory) < MaxCalls
  /\ \E name \in RequestNames :
       /\ op' = name
       /\ input' = [toolName |-> name, previousCalls |-> callHistory]
  /\ outcome' = [kind |-> "none"]
  /\ pc' = "validate"
  /\ UNCHANGED <<branch, idx, allResults, callHistory>>

\* !validation.isValid: the error with the constraint guidance is returned
ValidationFails ==
  /\ pc = "validate"
  /\ outcome' = [kind |-> "error", error |-> "API Constraint Validation Failed"]
  /\ pc' = "done"
  /\ UNCHANGED <<op, input, branch, idx, allResults, callHistory>>

\* validation.isValid: the try block is entered
ValidationPasses ==
  /\ pc = "validate"
  /\ pc' = "dispatch"
  /\ UNCHANGED <<op, input, branch, idx, allResults, outcome, callHistory>>

\* an unknown tool that is entered in the call history before it is refused
UnknownToolRecorded ==
  /\ pc = "dispatch"
  /\ op \notin ToolNames
  /\ callHistory' = Append(callHistory, op)
  /\ outcome' = [kind |-> "error", error |-> "Unknown tool"]
  /\ pc' = "done"
  /\ UNCHANGED <<op, input, branch, idx, allResults>>

\* default: throw new Error(`Unknown tool: ...`), caught by the catch block
UnknownTool ==
  /\ pc = "dispatch"
  /\ op \notin ToolNames
  /\ outcome' = [kind |-> "error", error |-> "Unknown tool"]
  /\ pc' = "done"
  /\ UNCHANGED <<op, input, branch, idx, allResults, callHistory>>

\* the awaited handler rejects: the catch block returns createMcpToolError
HandlerRaises ==
  /\ pc = "dispatch"
  /\ op \in ToolNames
  /\ outcome' = [kind |-> "error", error |-> "handler"]
  /\ pc' = "done"
  /\ UNCHANGED <<op, input, branch, idx, allResults, callHistory>>

\* the awaited handler resolves: this.callHistory.push(request.params.name)
HandlerReturns ==
  /\ pc = "dispatch"
  /\ op \in ToolNames
  /\ callHistory' = Append(callHistory, op)
  /\ pc' = "guidance"
  /\ UNCHANGED <<op, input, branch, idx, allResults, outcome>>

\* generateToolGuidance returns and the result, with the guidance if there
\* is any, is returned
GuidanceReturns ==
  /\ pc = "guidance"
  /\ \E guided \in BOOLEAN : outcome' = [kind |-> "result", apiGuidance |-> guided]
  /\ pc' = "done"
  /\ UNCHANGED <<op, input, branch, idx, allResults, callHistory>>

\* generateToolGuidance or JSON.parse throws inside the try block
GuidanceRaises ==
  /\ pc = "guidance"
  /\ outcome' = [kind |-> "error", error |-> "guidance"]
  /\ pc' = "done"
  /\ UNCHANGED <<op, input, branch, idx, allResults, callHistory>>

NextCall ==
  \/ CallTool
  \/ ValidationFails
  \/ ValidationPasses
  \/ UnknownTool
  \/ HandlerRaises
  \/ HandlerReturns
  \/ GuidanceReturns
  \/ GuidanceRaises

SpecCall == Init /\ [][NextCall]_vars

\* ------------------------------------------------------------- properties
CallOver == pc = "done"

\* the handler of the invocation returned
HandlerCompleted ==
  \/ outcome.kind = "result"
  \/ outcome.kind = "error" /\ outcome.error = "guidance"

C30_GrownWitness ==
  /\ CallOver
  /\ outcome.kind = "result"
  /\ Len(callHistory) = 2
  /\ Len(input.previousCalls) = 1

====
